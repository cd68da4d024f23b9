---------------------------- MODULE CrateProofs -----------------------------
(***************************************************************************)
(* Proofs about Crate, for every set of crates, in three parts.            *)
(*   - Prune: PruneInv is inductive, the traversal ends with exactly what  *)
(*     is needed, and a function marked broadcast_forall_only is mentioned *)
(*     by nothing that is kept; then PruneTwice: what the crate's pruning  *)
(*     has left, and the conversions have made of it, is all that the      *)
(*     bucket's needs.                                                     *)
(*   - Scc: ConnectInv and SortInv are inductive, the components are those *)
(*     of the graph, in an order that goes to callees first, and the       *)
(*     questions get the answers of the graph, for every graph.            *)
(*   - CallGraph and Crate: every call graph is such a graph, and the      *)
(*     pipeline prunes as Prune says.                                      *)
(***************************************************************************)
EXTENDS Crate, SequenceTheorems, FiniteSetTheorems, WellFoundedInduction, TLAPS

-----------------------------------------------------------------------------
(* The crate and what is looked up in it.                                  *)

(* What WellFormedKrate says of the fields the traversal follows. *)
LEMMA KrateTypes ==
    ASSUME WellFormedKrate(krate)
    PROVE  /\ \A x \in Items \ (Groups \cup Decls) : krate.decl[x] \subseteq Mentionable
           /\ \A x \in Funs \cup Types : krate.body[x] \subseteq Mentionable
           /\ \A x \in Funs \cup Types : krate.crate_only[x] \subseteq Funs
           /\ \A f \in Funs : krate.broadcast_use[f] \subseteq Funs \cup Groups
           /\ \A g \in Groups : krate.members[g] \subseteq Funs \cup Groups
           /\ \A f \in Funs : {} \notin krate.triggers[f]
           /\ \A f \in Funs : \A trig \in krate.triggers[f] : trig \subseteq Funs \cup Types
           /\ \A m \in krate.methods :
                 m.fun \in Funs /\ m.method \in Funs /\ m.self \in Types \cup {None}
           /\ \A i \in Impls :
                 krate.trait[i] \in Traits /\ krate.trait_typ_args[i] \subseteq Types \cup {None}
           /\ \A a \in AssocImpls :
                 krate.assoc_decl[a] \in Decls /\ krate.assoc_self[a] \in Types \cup {None}
           /\ \A d \in Decls : krate.decl_trait[d] \in Traits
           /\ krate.own \subseteq Items /\ krate.broadcast_forall \subseteq Funs
           /\ krate.bucket_funs \subseteq Funs /\ krate.bucket_types \subseteq Types
           /\ krate.module_reveals \subseteq Funs \cup Groups
           /\ krate.other_reveals \subseteq Funs \cup Groups
  <1>1. /\ krate.decl \in [Items \ (Groups \cup Decls) -> SUBSET Mentionable]
        /\ krate.body \in [Funs \cup Types -> SUBSET Mentionable]
        /\ krate.crate_only \in [Funs \cup Types -> SUBSET Funs]
        /\ krate.broadcast_use \in [Funs -> SUBSET (Funs \cup Groups)]
        /\ krate.members \in [Groups -> SUBSET (Funs \cup Groups)]
        /\ krate.triggers \in [Funs -> SUBSET (SUBSET (Funs \cup Types))]
        /\ krate.methods \in SUBSET Methods
    BY DEF WellFormedKrate, KrateRecords
  <1>2. /\ krate.trait \in [Impls -> Traits]
        /\ krate.trait_typ_args \in [Impls -> SUBSET (Types \cup {None})]
        /\ krate.assoc_decl \in [AssocImpls -> Decls]
        /\ krate.assoc_self \in [AssocImpls -> Types \cup {None}]
        /\ krate.decl_trait \in [Decls -> Traits]
    BY DEF WellFormedKrate, KrateRecords
  <1>3. /\ krate.own \subseteq Items /\ krate.broadcast_forall \subseteq Funs
        /\ krate.bucket_funs \subseteq Funs /\ krate.bucket_types \subseteq Types
        /\ krate.module_reveals \subseteq Funs \cup Groups
        /\ krate.other_reveals \subseteq Funs \cup Groups
        /\ \A f \in Funs : {} \notin krate.triggers[f]
    BY DEF WellFormedKrate, KrateRecords
  <1>4. \A m \in krate.methods :
           m.fun \in Funs /\ m.method \in Funs /\ m.self \in Types \cup {None}
    BY <1>1 DEF Methods
  <1>. QED  BY <1>1, <1>2, <1>3, <1>4

LEMMA ExistingPart == ASSUME NEW S PROVE Existing(S) \subseteq S
  BY DEF Existing

(* A function exists when the krate has it. *)
LEMMA ExistingFun ==
    ASSUME NEW f \in Funs
    PROVE  Existing({f}) = IF f \in present THEN {f} ELSE {}
  BY KrateAssumption DEF Existing

(* What an item mentions is an item. *)
LEMMA MentionedTypes ==
    ASSUME WellFormedKrate(krate), NEW x \in Items \ (Groups \cup Decls)
    PROVE  Mentioned(x) \subseteq Items
  <1>1. Mentionable \subseteq Items  BY DEF Mentionable, Items
  <1>2. krate.decl[x] \subseteq Items  BY <1>1, KrateTypes
  <1>3. x \in Funs \cup Types => krate.body[x] \subseteq Items  BY <1>1, KrateTypes
  <1>4. x \in Funs => krate.broadcast_use[x] \subseteq Items  BY KrateTypes DEF Items
  <1>5. x \in Funs \cup Types => krate.crate_only[x] \subseteq Items  BY KrateTypes DEF Items
  <1>. QED  BY <1>2, <1>3, <1>4, <1>5 DEF Mentioned

LEMMA RootsTypes == ASSUME WellFormedKrate(krate) PROVE Roots \subseteq Items
  <1>1. VisibleGroups \subseteq Groups  BY DEF VisibleGroups
  <1>2. RootModulesReveal \subseteq Items  BY KrateTypes DEF RootModulesReveal, Items
  <1>3. krate.own \subseteq Items  BY KrateTypes
  <1>4. krate.bucket_funs \cup krate.bucket_types \subseteq Items  BY KrateTypes DEF Items
  <1>5. Groups \subseteq Items  BY DEF Items
  <1>. QED  BY <1>1, <1>2, <1>3, <1>4, <1>5 DEF Roots, RootFunctions

(* While the traversal runs none of this changes. *)
LEMMA Frozen ==
    ASSUME UNCHANGED <<krate, scope, present, revealed>>
    PROVE  /\ Roots' = Roots
           /\ \A x : Mentioned(x)' = Mentioned(x)
           /\ \A P, R : Needed(P, R)' <=> Needed(P, R)
           /\ \A S : Closed(S)' <=> Closed(S)
  <1>1. VisibleGroups' = VisibleGroups  BY DEF VisibleGroups
  <1>2. RootFunctions' = RootFunctions  BY DEF RootFunctions
  <1>3. RootModulesReveal' = RootModulesReveal  BY DEF RootModulesReveal
  <1>4. RevealedDirectly' = RevealedDirectly  BY <1>2, <1>3 DEF RevealedDirectly
  <1>5. Roots' = Roots  BY <1>1, <1>2, <1>3, <1>4 DEF Roots
  <1>6. RevealedBroadcasts' = RevealedBroadcasts  BY DEF RevealedBroadcasts
  <1>7. \A S : Existing(S)' = Existing(S)  BY <1>1 DEF Existing
  <1>8. \A x : HasBody(x)' = HasBody(x)  BY DEF HasBody
  <1>9. \A x : Mentioned(x)' = Mentioned(x)  BY <1>8 DEF Mentioned
  <1>10. ASSUME NEW P, NEW R PROVE Needed(P, R)' <=> Needed(P, R)
    <2>1. MentionsKept(P, R)' <=> MentionsKept(P, R)  BY <1>7, <1>9 DEF MentionsKept
    <2>2. MethodsKept(P, R)' <=> MethodsKept(P, R)  BY <1>7 DEF MethodsKept
    <2>3. TraitImplsKept(P, R)' <=> TraitImplsKept(P, R)  BY DEF TraitImplsKept
    <2>4. AssocTypesKept(P, R)' <=> AssocTypesKept(P, R)  BY DEF AssocTypesKept
    <2>5. LemmasKept(P, R)' <=> LemmasKept(P, R)  BY <1>6 DEF LemmasKept
    <2>6. MembersKept(P, R)' <=> MembersKept(P, R)  BY <1>6, <1>7 DEF MembersKept
    <2>. QED  BY <2>1, <2>2, <2>3, <2>4, <2>5, <2>6 DEF Needed
  <1>. QED  BY <1>5, <1>9, <1>10 DEF Closed

-----------------------------------------------------------------------------
(* A step of the traversal: x leaves the worklist and S is reached.        *)

(* Rules that x has no part in need nothing new. *)
LEMMA RulesAside ==
    ASSUME WellFormedKrate(krate), NEW P, NEW R, NEW S, NEW x \in Items, Needed(P, R)
    PROVE  /\ x \in Groups \cup Decls => MentionsKept(P \cup {x}, R \cup S)
           /\ x \notin Funs \cup Types => MethodsKept(P \cup {x}, R \cup S)
           /\ x \notin Traits \cup Types => TraitImplsKept(P \cup {x}, R \cup S)
           /\ x \notin Decls \cup Types => AssocTypesKept(P \cup {x}, R \cup S)
           /\ x \notin Funs \cup Types => LemmasKept(P \cup {x}, R \cup S)
           /\ x \notin Groups => MembersKept(P \cup {x}, R \cup S)
  <1>0. x # None  BY KrateAssumption
  <1>1. ASSUME x \in Groups \cup Decls PROVE MentionsKept(P \cup {x}, R \cup S)
    BY <1>1 DEF Needed, MentionsKept
  <1>2. ASSUME x \notin Funs \cup Types PROVE MethodsKept(P \cup {x}, R \cup S)
    <2>1. SUFFICES ASSUME NEW m \in krate.methods
                   PROVE  /\ m.fun \in P \cup {x} => Existing({m.method}) \subseteq R \cup S
                          /\ m.method \in P \cup {x} /\ m.self \in P \cup {x} \cup {None}
                                => Existing({m.fun}) \subseteq R \cup S
      BY DEF MethodsKept
    <2>2. x \notin {m.fun, m.method, m.self}  BY <1>0, <1>2, KrateTypes
    <2>. QED  BY <2>2 DEF Needed, MethodsKept
  <1>3. ASSUME x \notin Traits \cup Types PROVE TraitImplsKept(P \cup {x}, R \cup S)
    <2>1. SUFFICES ASSUME NEW i \in Impls \cap present, krate.trait[i] \in P \cup {x},
                          krate.trait_typ_args[i] \ {None} \subseteq P \cup {x}
                   PROVE  i \in R \cup S
      BY DEF TraitImplsKept
    <2>2. krate.trait[i] \in P  BY <1>3, <2>1, KrateTypes
    <2>3. krate.trait_typ_args[i] \ {None} \subseteq P  BY <1>3, <2>1, KrateTypes
    <2>. QED  BY <2>2, <2>3 DEF Needed, TraitImplsKept
  <1>4. ASSUME x \notin Decls \cup Types PROVE AssocTypesKept(P \cup {x}, R \cup S)
    BY <1>0, <1>4, KrateTypes DEF Needed, AssocTypesKept
  <1>5. ASSUME x \notin Funs \cup Types PROVE LemmasKept(P \cup {x}, R \cup S)
    <2>1. SUFFICES ASSUME NEW f \in RevealedBroadcasts, NEW trig \in krate.triggers[f],
                          trig \subseteq P \cup {x}
                   PROVE  f \in R \cup S
      BY DEF LemmasKept
    <2>2. trig \subseteq P  BY <1>5, <2>1, KrateTypes DEF RevealedBroadcasts
    <2>. QED  BY <2>2 DEF Needed, LemmasKept
  <1>6. ASSUME x \notin Groups PROVE MembersKept(P \cup {x}, R \cup S)
    BY <1>6 DEF Needed, MembersKept
  <1>. QED  BY <1>1, <1>2, <1>3, <1>4, <1>5, <1>6

(* What x mentions is reached with it. *)
LEMMA MentionsStep ==
    ASSUME NEW P, NEW R, NEW S, NEW x, MentionsKept(P, R), Existing(Mentioned(x)) \subseteq S
    PROVE  MentionsKept(P \cup {x}, R \cup S)
  BY DEF MentionsKept

(* A lemma is reached with the last function or type of one of its triggers. *)
LEMMA LemmasStep ==
    ASSUME WellFormedKrate(krate), NEW P, NEW R, NEW S, NEW x, NEW Q, LemmasKept(P, R),
           P \cup {x} \subseteq Q,
           {b \in TriggerBroadcasts(x) : Activated(b, Q)} \subseteq S
    PROVE  LemmasKept(P \cup {x}, R \cup S)
  <1>1. SUFFICES ASSUME NEW f \in RevealedBroadcasts, NEW trig \in krate.triggers[f],
                        trig \subseteq P \cup {x}
                 PROVE  f \in R \cup S
    BY DEF LemmasKept
  <1>2. CASE x \in trig
    <2>1. trig \subseteq Q  BY <1>1
    <2>2. f \in TriggerBroadcasts(x)  BY <1>2 DEF TriggerBroadcasts
    <2>3. Activated(f, Q)  BY <2>1 DEF Activated
    <2>. QED  BY <2>2, <2>3
  <1>3. CASE x \notin trig
    <2>1. trig \subseteq P  BY <1>1, <1>3
    <2>. QED  BY <2>1 DEF LemmasKept
  <1>. QED  BY <1>2, <1>3

(* A lemma with a trigger of which x is part, reached for a trigger in Q,  *)
(* belongs to every closed set that Q lies in.                             *)
LEMMA LemmasWithin ==
    ASSUME NEW C, NEW Q, NEW x, Closed(C), Q \subseteq C
    PROVE  {b \in TriggerBroadcasts(x) : Activated(b, Q)} \subseteq C
  <1>1. SUFFICES ASSUME NEW b \in TriggerBroadcasts(x), Activated(b, Q) PROVE b \in C
    OBVIOUS
  <1>2. b \in RevealedBroadcasts /\ krate.triggers[b] # {}  BY DEF TriggerBroadcasts
  <1>3. PICK trig \in krate.triggers[b] : trig \subseteq Q  BY <1>1, <1>2 DEF Activated
  <1>4. trig \subseteq C  BY <1>3
  <1>. QED  BY <1>2, <1>3, <1>4 DEF Closed, Needed, LemmasKept

(* The implementations reached_methods finds are reached functions, and    *)
(* belong to every closed set that holds their types and methods.          *)
LEMMA MethodImplsWithin ==
    ASSUME WellFormedKrate(krate), NEW C, NEW ts, NEW fs, Closed(C),
           ts \subseteq C \cup {None}, fs \subseteq C
    PROVE  MethodImpls(ts, fs) \subseteq C
  <1>1. SUFFICES ASSUME NEW m \in krate.methods, m.self \in ts, m.method \in fs, m.fun \in present
                 PROVE  m.fun \in C
    BY DEF MethodImpls
  <1>2. m.fun \in Existing({m.fun})  BY <1>1, KrateTypes, ExistingFun
  <1>. QED  BY <1>1, <1>2 DEF Closed, Needed, MethodsKept

LEMMA MethodImplsFuns ==
    ASSUME WellFormedKrate(krate), NEW ts, NEW fs
    PROVE  MethodImpls(ts, fs) \subseteq Funs
  BY KrateTypes DEF MethodImpls

(* Continue keeps the invariant when S is what x asks for, no more and no  *)
(* less, and the functions x mentions are among the calls.                 *)
LEMMA ContinueKeeps ==
    ASSUME PruneInv, pruning = "yes", NEW x \in worklist, NEW S \in SUBSET Items, NEW calls,
           Continue(x, S, calls),
           Needed(Processed \cup {x}, reached \cup S),
           \A C \in SUBSET Items : Closed(C) /\ reached \subseteq C => S \subseteq C,
           x \notin Groups \cup Decls => Mentioned(x) \cap Funs \subseteq calls
    PROVE  PruneInv'
  <1>. USE DEF PruneInv, TypesOK
  <1>1. UNCHANGED <<krate, scope, pruning, present, revealed, only>>  BY DEF Continue
  <1>2. reached' = reached \cup S /\ worklist' = (worklist \ {x}) \cup (S \ reached)
           /\ fully' = fully \cup calls
    BY DEF Continue
  <1>3. Processed' = Processed \cup {x}  BY <1>2 DEF Processed
  <1>4. TypesOK'  BY <1>1, <1>2
  <1>5. NoneMissing'
    <2>1. PICK P, R : P = Processed \cup {x} /\ R = reached \cup S  OBVIOUS
    <2>2. Needed(P, R)'  BY <1>1, <2>1, Frozen
    <2>3. Processed' = P /\ reached' = R  BY <1>2, <1>3, <2>1
    <2>4. Needed(Processed, reached)'
      BY <2>2, <2>3 DEF Needed, MentionsKept, MethodsKept, TraitImplsKept, AssocTypesKept,
         LemmasKept, MembersKept
    <2>5. (Roots \subseteq reached)'  BY <1>1, <1>2, Frozen DEF NoneMissing
    <2>. QED  BY <2>4, <2>5 DEF NoneMissing
  <1>6. NoneTooMuch'
    <2>1. SUFFICES ASSUME NEW C \in SUBSET Items, Roots \subseteq C, Closed(C)
                   PROVE  reached' \subseteq C
      BY <1>1, Frozen DEF NoneTooMuch
    <2>2. reached \subseteq C  BY <2>1 DEF NoneTooMuch
    <2>. QED  BY <1>2, <2>1, <2>2
  <1>7. CallsMarked'  BY <1>1, <1>2, <1>3, Frozen DEF CallsMarked
  <1>8. OnlyBroadcast'
    <2>1. \A y : EverMentioned(y)' = EverMentioned(y)  BY <1>1 DEF EverMentioned, MentionedBy
    <2>. QED  BY <1>1, <2>1 DEF OnlyBroadcast
  <1>9. BroadcastOnlyNeverCalled'  BY <1>1 DEF BroadcastOnlyNeverCalled
  <1>. QED  BY <1>4, <1>5, <1>6, <1>7, <1>8, <1>9

LEMMA PoppedFrom ==
    ASSUME NEW kind \in 1 .. 8, NEW x, Popped(kind, x)
    PROVE  pruning = "yes" /\ x \in worklist /\ x \in Kinds[kind]
  BY DEF Popped

LEMMA PopFunctionKeeps ==
    ASSUME PruneInv, NEW f \in Funs, PopFunction(f)
    PROVE  PruneInv'
  <1> DEFINE decls == Existing(MethodDecls(f))
             broadcasts == {b \in TriggerBroadcasts(f) : Activated(b, reached \cup decls)}
             direct == Existing(Mentioned(f))
             impls == MethodImpls(((reached \cup direct) \cap Types) \cup {None}, {f})
             S == decls \cup broadcasts \cup direct \cup impls
             calls == (MethodDecls(f) \cup Mentioned(f) \cup impls) \cap (Funs \cup Groups)
  <1>1. WellFormedKrate(krate) /\ pruning = "yes" /\ f \in worklist /\ f \in reached
    BY PoppedFrom DEF PopFunction, PruneInv, TypesOK
  <1>2. f \notin Groups \cup Types \cup Traits \cup Decls  BY KrateAssumption
  <1>3. Continue(f, S, calls)  BY DEF PopFunction
  <1>4. Needed(Processed, reached)  BY <1>1 DEF PruneInv, NoneMissing
  <1>5. S \in SUBSET Items
    <2>1. decls \subseteq Funs  BY <1>1, ExistingPart, KrateTypes DEF MethodDecls
    <2>2. direct \subseteq Items  BY <1>1, <1>2, ExistingPart, MentionedTypes DEF Items
    <2>3. broadcasts \subseteq Funs  BY DEF TriggerBroadcasts, RevealedBroadcasts
    <2>4. impls \subseteq Funs  BY <1>1, MethodImplsFuns
    <2>. QED  BY <2>1, <2>2, <2>3, <2>4 DEF Items
  <1>6. Needed(Processed \cup {f}, reached \cup S)
    <2>1. MentionsKept(Processed \cup {f}, reached \cup S)
      BY <1>4, MentionsStep DEF Needed
    <2>2. MethodsKept(Processed \cup {f}, reached \cup S)
      <3>1. SUFFICES ASSUME NEW m \in krate.methods
                     PROVE  /\ m.fun \in Processed \cup {f}
                                  => Existing({m.method}) \subseteq reached \cup S
                            /\ m.method \in Processed \cup {f} /\ m.self \in Processed \cup {f} \cup {None}
                                  => Existing({m.fun}) \subseteq reached \cup S
        BY DEF MethodsKept
      <3>2. m.fun \in Funs /\ m.method \in Funs /\ m.self \in Types \cup {None}  BY <1>1, KrateTypes
      <3>3. m.fun = f => Existing({m.method}) \subseteq decls  BY DEF MethodDecls, Existing
      <3>4. m.self # f  BY <1>2, <3>2, KrateAssumption DEF Items
      <3>5. ASSUME m.method = f, m.self \in Processed \cup {None}
            PROVE  Existing({m.fun}) \subseteq impls
        <4>1. m.self \in ((reached \cup direct) \cap Types) \cup {None}  BY <3>2, <3>5 DEF Processed
        <4>2. m.fun \in present => m.fun \in impls  BY <3>5, <4>1 DEF MethodImpls
        <4>. QED  BY <3>2, <4>2, ExistingFun
      <3>. QED  BY <1>4, <3>3, <3>4, <3>5 DEF Needed, MethodsKept
    <2>3. LemmasKept(Processed \cup {f}, reached \cup S)
      <3>1. Processed \cup {f} \subseteq reached \cup decls  BY <1>1 DEF Processed
      <3>2. LemmasKept(Processed, reached)  BY <1>4 DEF Needed
      <3>. QED  BY <1>1, <3>1, <3>2, LemmasStep
    <2>. QED  BY <1>1, <1>2, <1>4, <2>1, <2>2, <2>3, RulesAside DEF Needed, Items
  <1>7. ASSUME NEW C \in SUBSET Items, Closed(C), reached \subseteq C PROVE S \subseteq C
    <2>1. decls \subseteq C
      <3>1. SUFFICES ASSUME NEW m \in krate.methods, m.fun = f, m.method \in Existing(MethodDecls(f))
                     PROVE  m.method \in C
        BY ExistingPart DEF MethodDecls
      <3>2. m.method \in Existing({m.method})  BY <3>1 DEF Existing
      <3>. QED  BY <1>1, <1>7, <3>1, <3>2 DEF Closed, Needed, MethodsKept
    <2>2. broadcasts \subseteq C  BY <1>7, <2>1, LemmasWithin
    <2>3. direct \subseteq C  BY <1>1, <1>2, <1>7 DEF Closed, Needed, MentionsKept
    <2>4. impls \subseteq C
      <3>1. ((reached \cup direct) \cap Types) \cup {None} \subseteq C \cup {None}  BY <1>7, <2>3
      <3>2. {f} \subseteq C  BY <1>1, <1>7
      <3>. HIDE DEF direct
      <3>. QED  BY <1>1, <1>7, <3>1, <3>2, MethodImplsWithin
    <2>. QED  BY <2>1, <2>2, <2>3, <2>4
  <1>8. Mentioned(f) \cap Funs \subseteq calls  OBVIOUS
  <1>. HIDE DEF S, calls
  <1>. QED  BY <1>1, <1>3, <1>5, <1>6, <1>7, <1>8, ContinueKeeps

LEMMA PopGroupKeeps ==
    ASSUME PruneInv, NEW g \in Groups, PopGroup(g)
    PROVE  PruneInv'
  <1> DEFINE members == {m \in krate.members[g] : Activated(m, reached)}
             S == Existing(members)
             calls == members \ RevealedBroadcasts
  <1>1. WellFormedKrate(krate) /\ pruning = "yes" /\ g \in worklist /\ g \in reached
    BY PoppedFrom DEF PopGroup, PruneInv, TypesOK
  <1>2. g \notin Funs \cup Types \cup Traits \cup Decls  BY KrateAssumption
  <1>3. Continue(g, S, calls)  BY DEF PopGroup
  <1>4. Needed(Processed, reached)  BY <1>1 DEF PruneInv, NoneMissing
  <1>5. S \in SUBSET Items  BY <1>1, ExistingPart, KrateTypes DEF Items
  <1>6. Needed(Processed \cup {g}, reached \cup S)
    <2>1. MembersKept(Processed \cup {g}, reached \cup S)
      <3>1. ASSUME NEW m \in Existing(krate.members[g]),
                   m \notin RevealedBroadcasts \/ krate.triggers[m] = {}
            PROVE  m \in S
        <4>1. Activated(m, reached)  BY <3>1 DEF Activated
        <4>2. m \in members  BY <4>1, ExistingPart
        <4>. QED  BY <3>1, <4>2 DEF Existing
      <3>. HIDE DEF S
      <3>. QED  BY <1>4, <3>1 DEF Needed, MembersKept
    <2>. QED  BY <1>1, <1>2, <1>4, <2>1, RulesAside DEF Needed, Items
  <1>7. ASSUME NEW C \in SUBSET Items, Closed(C), reached \subseteq C PROVE S \subseteq C
    <2>1. SUFFICES ASSUME NEW m \in S PROVE m \in C  OBVIOUS
    <2>2. m \in members /\ m \in Existing(krate.members[g])  BY <2>1, ExistingPart DEF Existing
    <2>3. CASE m \in RevealedBroadcasts /\ krate.triggers[m] # {}
      <3>1. PICK trig \in krate.triggers[m] : trig \subseteq reached  BY <2>2, <2>3 DEF Activated
      <3>2. trig \subseteq C  BY <1>7, <3>1
      <3>. QED  BY <1>7, <2>3, <3>2 DEF Closed, Needed, LemmasKept
    <2>4. CASE m \notin RevealedBroadcasts \/ krate.triggers[m] = {}
      BY <1>1, <1>7, <2>2, <2>4 DEF Closed, Needed, MembersKept
    <2>. QED  BY <2>3, <2>4
  <1>. HIDE DEF S, calls
  <1>. QED  BY <1>1, <1>3, <1>5, <1>6, <1>7, ContinueKeeps

LEMMA PopTypeKeeps ==
    ASSUME PruneInv, NEW t \in Types, PopType(t)
    PROVE  PruneInv'
  <1> DEFINE broadcasts == {b \in TriggerBroadcasts(t) : Activated(b, reached)}
             direct == Existing(Mentioned(t))
             r == reached \cup broadcasts \cup direct
             imps == Existing({i \in TraitImpls(r) : t \in krate.trait_typ_args[i]})
             impls == MethodImpls({t}, r \cap Funs)
             assocs == Existing(AssocTypeImpls({t}, r \cap Decls))
             S == broadcasts \cup direct \cup imps \cup impls \cup assocs
             calls == (Mentioned(t) \cup impls) \cap Funs
  <1>1. WellFormedKrate(krate) /\ pruning = "yes" /\ t \in worklist /\ t \in reached
    BY PoppedFrom DEF PopType, PruneInv, TypesOK
  <1>2. t \notin Funs \cup Groups \cup Traits \cup Decls /\ t # None  BY KrateAssumption DEF Items
  <1>3. Continue(t, S, calls)  BY DEF PopType
  <1>4. Needed(Processed, reached)  BY <1>1 DEF PruneInv, NoneMissing
  <1>5. S \in SUBSET Items
    <2>1. direct \subseteq Items  BY <1>1, <1>2, ExistingPart, MentionedTypes DEF Items
    <2>2. broadcasts \subseteq Funs  BY DEF TriggerBroadcasts, RevealedBroadcasts
    <2>3. impls \subseteq Funs  BY <1>1, MethodImplsFuns
    <2>4. imps \subseteq Impls  BY ExistingPart DEF TraitImpls
    <2>5. assocs \subseteq AssocImpls  BY ExistingPart DEF AssocTypeImpls
    <2>. QED  BY <2>1, <2>2, <2>3, <2>4, <2>5 DEF Items
  <1>0. Processed \cup {t} \subseteq reached /\ reached \subseteq r  BY <1>1 DEF Processed
  <1>6. Needed(Processed \cup {t}, reached \cup S)
    <2>1. MentionsKept(Processed \cup {t}, reached \cup S)
      BY <1>4, MentionsStep DEF Needed
    <2>2. MethodsKept(Processed \cup {t}, reached \cup S)
      <3>1. SUFFICES ASSUME NEW m \in krate.methods
                     PROVE  /\ m.fun \in Processed \cup {t}
                                  => Existing({m.method}) \subseteq reached \cup S
                            /\ m.method \in Processed \cup {t} /\ m.self \in Processed \cup {t} \cup {None}
                                  => Existing({m.fun}) \subseteq reached \cup S
        BY DEF MethodsKept
      <3>2. m.fun \in Funs /\ m.method \in Funs /\ m.self \in Types \cup {None}  BY <1>1, KrateTypes
      <3>3. m.fun # t /\ m.method # t  BY <1>2, <3>2
      <3>4. ASSUME m.method \in Processed, m.self = t
            PROVE  Existing({m.fun}) \subseteq impls
        <4>1. m.method \in r \cap Funs  BY <1>0, <3>2, <3>4
        <4>. HIDE DEF r
        <4>2. m.fun \in present => m.fun \in impls  BY <3>4, <4>1 DEF MethodImpls
        <4>. QED  BY <3>2, <4>2, ExistingFun
      <3>. QED  BY <1>4, <3>3, <3>4 DEF Needed, MethodsKept
    <2>3. LemmasKept(Processed \cup {t}, reached \cup S)
      <3>1. LemmasKept(Processed, reached)  BY <1>4 DEF Needed
      <3>. QED  BY <1>0, <1>1, <3>1, LemmasStep
    <2>4. TraitImplsKept(Processed \cup {t}, reached \cup S)
      <3>1. SUFFICES ASSUME NEW i \in Impls \cap present, krate.trait[i] \in Processed \cup {t},
                            krate.trait_typ_args[i] \ {None} \subseteq Processed \cup {t}
                     PROVE  i \in reached \cup S
        BY DEF TraitImplsKept
      <3>2. krate.trait[i] \in Processed  BY <1>1, <1>2, <3>1, KrateTypes
      <3>3. CASE t \in krate.trait_typ_args[i]
        <4>1. krate.trait[i] \in r /\ krate.trait_typ_args[i] \ {None} \subseteq r
          BY <1>0, <3>1
        <4>. HIDE DEF r
        <4>2. i \in TraitImpls(r)  BY <4>1 DEF TraitImpls
        <4>3. i \in imps  BY <3>1, <3>3, <4>2, KrateAssumption DEF Existing
        <4>. QED  BY <4>3
      <3>4. CASE t \notin krate.trait_typ_args[i]
        <4>1. krate.trait_typ_args[i] \ {None} \subseteq Processed  BY <3>1, <3>4
        <4>. QED  BY <1>4, <3>2, <4>1 DEF Needed, TraitImplsKept
      <3>. QED  BY <3>3, <3>4
    <2>5. AssocTypesKept(Processed \cup {t}, reached \cup S)
      <3>1. ASSUME NEW a \in AssocImpls \cap present, krate.assoc_decl[a] \in Processed \cup {t},
                   krate.assoc_self[a] \in Processed \cup {t} \cup {None}
            PROVE  a \in reached \cup S
        <4>1. krate.assoc_decl[a] \in Processed /\ krate.assoc_decl[a] \in Decls
          BY <1>1, <1>2, <3>1, KrateTypes
        <4>2. CASE krate.assoc_self[a] = t
          <5>1. krate.assoc_decl[a] \in r \cap Decls  BY <1>0, <4>1
          <5>. HIDE DEF r
          <5>2. a \in AssocTypeImpls({t}, r \cap Decls)  BY <4>2, <5>1 DEF AssocTypeImpls
          <5>3. a \in assocs  BY <3>1, <5>2, KrateAssumption DEF Existing
          <5>. QED  BY <5>3
        <4>3. CASE krate.assoc_self[a] \in Processed \cup {None}
          BY <1>4, <4>1, <4>3 DEF Needed, AssocTypesKept
        <4>. QED  BY <3>1, <4>2, <4>3
      <3>2. ASSUME NEW d \in Decls \cap (Processed \cup {t})
            PROVE  krate.decl_trait[d] \in reached \cup S
        BY <1>2, <1>4 DEF Needed, AssocTypesKept
      <3>. HIDE DEF S
      <3>. QED  BY <3>1, <3>2 DEF AssocTypesKept
    <2>. QED  BY <1>1, <1>2, <1>4, <2>1, <2>2, <2>3, <2>4, <2>5, RulesAside DEF Needed, Items
  <1>7. ASSUME NEW C \in SUBSET Items, Closed(C), reached \subseteq C PROVE S \subseteq C
    <2>1. broadcasts \subseteq C  BY <1>7, LemmasWithin
    <2>2. direct \subseteq C  BY <1>1, <1>2, <1>7 DEF Closed, Needed, MentionsKept
    <2>3. r \subseteq C /\ {t} \subseteq C  BY <1>1, <1>7, <2>1, <2>2
    <2>. HIDE DEF r
    <2>4. impls \subseteq C
      <3>1. {t} \subseteq C \cup {None} /\ r \cap Funs \subseteq C  BY <2>3
      <3>. QED  BY <1>1, <1>7, <3>1, MethodImplsWithin
    <2>5. imps \subseteq C
      <3>1. SUFFICES ASSUME NEW i \in imps PROVE i \in C  OBVIOUS
      <3>2. i \in TraitImpls(r) /\ i \in Impls \cap present  BY <3>1, ExistingPart DEF Existing, TraitImpls
      <3>3. krate.trait[i] \in C /\ krate.trait_typ_args[i] \ {None} \subseteq C
        BY <2>3, <3>2 DEF TraitImpls
      <3>. QED  BY <1>7, <3>2, <3>3 DEF Closed, Needed, TraitImplsKept
    <2>6. assocs \subseteq C
      <3>1. SUFFICES ASSUME NEW a \in assocs PROVE a \in C  OBVIOUS
      <3>2. a \in AssocTypeImpls({t}, r \cap Decls) /\ a \in AssocImpls \cap present
        BY <3>1, ExistingPart DEF Existing, AssocTypeImpls
      <3>3. krate.assoc_decl[a] \in C /\ krate.assoc_self[a] \in C
        BY <2>3, <3>2 DEF AssocTypeImpls
      <3>. QED  BY <1>7, <3>2, <3>3 DEF Closed, Needed, AssocTypesKept
    <2>. QED  BY <2>1, <2>2, <2>4, <2>5, <2>6
  <1>8. Mentioned(t) \cap Funs \subseteq calls  OBVIOUS
  <1>. HIDE DEF S, calls
  <1>. QED  BY <1>1, <1>3, <1>5, <1>6, <1>7, <1>8, ContinueKeeps

LEMMA PopTraitKeeps ==
    ASSUME PruneInv, NEW b \in Traits, PopTrait(b)
    PROVE  PruneInv'
  <1> DEFINE imps == Existing({i \in TraitImpls(reached) : krate.trait[i] = b})
             S == imps \cup Existing(Mentioned(b))
             calls == Mentioned(b) \cap Funs
  <1>1. WellFormedKrate(krate) /\ pruning = "yes" /\ b \in worklist /\ b \in reached
    BY PoppedFrom DEF PopTrait, PruneInv, TypesOK
  <1>2. b \notin Funs \cup Groups \cup Types \cup Decls  BY KrateAssumption
  <1>3. Continue(b, S, calls)  BY DEF PopTrait
  <1>4. Needed(Processed, reached)  BY <1>1 DEF PruneInv, NoneMissing
  <1>5. S \in SUBSET Items
    <2>1. Existing(Mentioned(b)) \subseteq Items  BY <1>1, <1>2, ExistingPart, MentionedTypes DEF Items
    <2>2. imps \subseteq Impls  BY ExistingPart DEF TraitImpls
    <2>. QED  BY <2>1, <2>2 DEF Items
  <1>6. Needed(Processed \cup {b}, reached \cup S)
    <2>1. MentionsKept(Processed \cup {b}, reached \cup S)
      BY <1>4, MentionsStep DEF Needed
    <2>2. TraitImplsKept(Processed \cup {b}, reached \cup S)
      <3>1. SUFFICES ASSUME NEW i \in Impls \cap present, krate.trait[i] \in Processed \cup {b},
                            krate.trait_typ_args[i] \ {None} \subseteq Processed \cup {b}
                     PROVE  i \in reached \cup S
        BY DEF TraitImplsKept
      <3>2. krate.trait_typ_args[i] \ {None} \subseteq Processed  BY <1>1, <1>2, <3>1, KrateTypes
      <3>3. CASE krate.trait[i] = b
        <4>1. i \in TraitImpls(reached)  BY <1>1, <3>2, <3>3 DEF TraitImpls, Processed
        <4>2. i \in imps  BY <3>1, <3>3, <4>1, KrateAssumption DEF Existing
        <4>. QED  BY <4>2
      <3>4. CASE krate.trait[i] \in Processed
        BY <1>4, <3>2, <3>4 DEF Needed, TraitImplsKept
      <3>. QED  BY <3>1, <3>3, <3>4
    <2>. QED  BY <1>1, <1>2, <1>4, <2>1, <2>2, RulesAside DEF Needed, Items
  <1>7. ASSUME NEW C \in SUBSET Items, Closed(C), reached \subseteq C PROVE S \subseteq C
    <2>1. Existing(Mentioned(b)) \subseteq C  BY <1>1, <1>2, <1>7 DEF Closed, Needed, MentionsKept
    <2>2. imps \subseteq C
      <3>1. SUFFICES ASSUME NEW i \in imps PROVE i \in C  OBVIOUS
      <3>2. i \in TraitImpls(reached) /\ i \in Impls \cap present
        BY <3>1, ExistingPart DEF Existing, TraitImpls
      <3>3. krate.trait[i] \in C /\ krate.trait_typ_args[i] \ {None} \subseteq C
        BY <1>7, <3>2 DEF TraitImpls
      <3>. QED  BY <1>7, <3>2, <3>3 DEF Closed, Needed, TraitImplsKept
    <2>. QED  BY <2>1, <2>2
  <1>. HIDE DEF S
  <1>. QED  BY <1>1, <1>3, <1>5, <1>6, <1>7, ContinueKeeps

LEMMA PopDeclKeeps ==
    ASSUME PruneInv, NEW a \in Decls, PopDecl(a)
    PROVE  PruneInv'
  <1> DEFINE ts == (reached \cap Types) \cup {None}
             assocs == Existing(AssocTypeImpls(ts, {a}))
             S == assocs \cup {krate.decl_trait[a]}
  <1>1. WellFormedKrate(krate) /\ pruning = "yes" /\ a \in worklist /\ a \in reached
    BY PoppedFrom DEF PopDecl, PruneInv, TypesOK
  <1>2. a \notin Funs \cup Groups \cup Types \cup Traits /\ a # None  BY KrateAssumption DEF Items
  <1>3. Continue(a, S, {})  BY DEF PopDecl
  <1>4. Needed(Processed, reached)  BY <1>1 DEF PruneInv, NoneMissing
  <1>5. S \in SUBSET Items
    <2>1. assocs \subseteq AssocImpls  BY ExistingPart DEF AssocTypeImpls
    <2>2. krate.decl_trait[a] \in Traits  BY <1>1, KrateTypes
    <2>. QED  BY <2>1, <2>2 DEF Items
  <1>6. Needed(Processed \cup {a}, reached \cup S)
    <2>1. AssocTypesKept(Processed \cup {a}, reached \cup S)
      <3>1. ASSUME NEW e \in AssocImpls \cap present, krate.assoc_decl[e] \in Processed \cup {a},
                   krate.assoc_self[e] \in Processed \cup {a} \cup {None}
            PROVE  e \in reached \cup S
        <4>1. krate.assoc_self[e] \in Processed \cup {None} /\ krate.assoc_self[e] \in Types \cup {None}
          BY <1>1, <1>2, <3>1, KrateTypes
        <4>2. CASE krate.assoc_decl[e] = a
          <5>1. krate.assoc_self[e] \in ts  BY <4>1 DEF Processed
          <5>. HIDE DEF ts
          <5>2. e \in AssocTypeImpls(ts, {a})  BY <4>2, <5>1 DEF AssocTypeImpls
          <5>3. e \in assocs  BY <3>1, <5>2, KrateAssumption DEF Existing
          <5>. QED  BY <5>3
        <4>3. CASE krate.assoc_decl[e] \in Processed
          BY <1>4, <4>1, <4>3 DEF Needed, AssocTypesKept
        <4>. QED  BY <3>1, <4>2, <4>3
      <3>2. ASSUME NEW d \in Decls \cap (Processed \cup {a})
            PROVE  krate.decl_trait[d] \in reached \cup S
        BY <1>4 DEF Needed, AssocTypesKept
      <3>. HIDE DEF S
      <3>. QED  BY <3>1, <3>2 DEF AssocTypesKept
    <2>. QED  BY <1>1, <1>2, <1>4, <2>1, RulesAside DEF Needed, Items
  <1>7. ASSUME NEW C \in SUBSET Items, Closed(C), reached \subseteq C PROVE S \subseteq C
    <2>1. krate.decl_trait[a] \in C  BY <1>1, <1>7 DEF Closed, Needed, AssocTypesKept
    <2>2. assocs \subseteq C
      <3>1. SUFFICES ASSUME NEW e \in assocs PROVE e \in C  OBVIOUS
      <3>2. e \in AssocTypeImpls(ts, {a}) /\ e \in AssocImpls \cap present
        BY <3>1, ExistingPart DEF Existing, AssocTypeImpls
      <3>3. krate.assoc_decl[e] \in C /\ krate.assoc_self[e] \in C \cup {None}
        BY <1>1, <1>7, <3>2 DEF AssocTypeImpls
      <3>. QED  BY <1>7, <3>2, <3>3 DEF Closed, Needed, AssocTypesKept
    <2>. QED  BY <2>1, <2>2
  <1>. HIDE DEF S
  <1>. QED  BY <1>1, <1>3, <1>5, <1>6, <1>7, ContinueKeeps

LEMMA PopOtherKeeps ==
    ASSUME PruneInv, NEW x \in Impls \cup AssocImpls \cup Opaques, PopOther(x)
    PROVE  PruneInv'
  <1> DEFINE S == Existing(Mentioned(x))
             calls == Mentioned(x) \cap Funs
  <1>1. WellFormedKrate(krate) /\ pruning = "yes" /\ x \in worklist /\ x \in reached
    BY PoppedFrom DEF PopOther, PruneInv, TypesOK
  <1>2. x \in Items \ (Funs \cup Groups \cup Types \cup Traits \cup Decls)
    BY KrateAssumption DEF Items
  <1>3. Continue(x, S, calls)  BY DEF PopOther
  <1>4. Needed(Processed, reached)  BY <1>1 DEF PruneInv, NoneMissing
  <1>5. S \in SUBSET Items  BY <1>1, <1>2, ExistingPart, MentionedTypes
  <1>6. Needed(Processed \cup {x}, reached \cup S)
    <2>1. MentionsKept(Processed \cup {x}, reached \cup S)
      BY <1>4, MentionsStep DEF Needed
    <2>. QED  BY <1>1, <1>2, <1>4, <2>1, RulesAside DEF Needed
  <1>7. ASSUME NEW C \in SUBSET Items, Closed(C), reached \subseteq C PROVE S \subseteq C
    BY <1>1, <1>2, <1>7 DEF Closed, Needed, MentionsKept
  <1>. HIDE DEF S
  <1>. QED  BY <1>1, <1>3, <1>5, <1>6, <1>7, ContinueKeeps

-----------------------------------------------------------------------------
(* The two prunings and what lies between them.                            *)

(* With everything still to do nothing is missing yet. *)
LEMMA NothingDone ==
    ASSUME WellFormedKrate(krate), NEW R
    PROVE  Needed({}, R)
  <1>1. LemmasKept({}, R)  BY KrateTypes DEF LemmasKept, RevealedBroadcasts
  <1>. QED  BY <1>1 DEF Needed, MentionsKept, MethodsKept, TraitImplsKept, AssocTypesKept, MembersKept

LEMMA PruneInitInv == ASSUME PruneInit PROVE PruneInv
  <1>1. /\ krate \in Krates /\ WellFormedKrate(krate) /\ scope = "crate" /\ pruning = "yes"
        /\ only = {} /\ present = krate.items /\ reached = Roots /\ worklist = Roots
    BY KrateAssumption DEF PruneInit
  <1>2. TypesOK  BY <1>1, RootsTypes DEF TypesOK
  <1>3. Processed = {}  BY <1>1 DEF Processed
  <1>4. NoneMissing  BY <1>1, <1>3, NothingDone DEF NoneMissing
  <1>5. NoneTooMuch  BY <1>1 DEF NoneTooMuch
  <1>6. CallsMarked  BY <1>3 DEF CallsMarked
  <1>7. OnlyBroadcast  BY <1>1 DEF OnlyBroadcast
  <1>8. BroadcastOnlyNeverCalled  BY <1>1 DEF BroadcastOnlyNeverCalled
  <1>. QED  BY <1>2, <1>4, <1>5, <1>6, <1>7, <1>8 DEF PruneInv

(* What is mentioned in a bucket was mentioned in the crate. *)
LEMMA MentionedInCrate ==
    ASSUME NEW x
    PROVE  /\ Mentioned(x) \subseteq EverMentioned(x)
           /\ scope = "crate" /\ x \in present => Mentioned(x) = EverMentioned(x)
  BY DEF Mentioned, EverMentioned, MentionedBy, HasBody

LEMMA FinishKeeps == ASSUME PruneInv, Finish PROVE PruneInv'
  <1>1. WellFormedKrate(krate) /\ pruning = "yes" /\ worklist = {} /\ pruning' = "no"
           /\ scope \in {"crate", "bucket"}
           /\ present' = present \cap reached
           /\ UNCHANGED <<krate, scope, revealed, reached, worklist, fully>>
    BY DEF Finish, PruneInv, TypesOK
  <1>2. TypesOK'
    <2>1. only' \subseteq Funs  BY <1>1, KrateTypes DEF Finish, PruneInv, TypesOK
    <2>. QED  BY <1>1, <2>1 DEF PruneInv, TypesOK
  <1>3. NoneMissing' /\ NoneTooMuch' /\ CallsMarked'
    BY <1>1 DEF NoneMissing, NoneTooMuch, CallsMarked
  <1>4. \A x \in present' : Mentioned(x)' = Mentioned(x)
    BY <1>1 DEF Mentioned, HasBody
  <1>5. \A x : EverMentioned(x)' = EverMentioned(x)  BY <1>1 DEF EverMentioned, MentionedBy
  <1>6. ASSUME NEW f \in only' \ only, NEW x \in present' \ (Groups \cup Decls)
        PROVE  f \notin Mentioned(x)
    <2>1. f \in Funs \ fully  BY <1>1, KrateTypes DEF Finish
    <2>2. x \in Processed \ (Groups \cup Decls)  BY <1>1 DEF Processed
    <2>3. Mentioned(x) \cap Funs \subseteq fully  BY <1>1, <2>2 DEF PruneInv, CallsMarked
    <2>. QED  BY <2>1, <2>3
  <1>7. scope = "crate" => only = {}  BY <1>1 DEF PruneInv, OnlyBroadcast
  <1>8. ASSUME scope = "bucket", NEW f \in only, NEW x \in present' \ (Groups \cup Decls)
        PROVE  f \notin Mentioned(x)
    <2>1. f \notin EverMentioned(x)  BY <1>1, <1>8 DEF PruneInv, OnlyBroadcast
    <2>. QED  BY <2>1, MentionedInCrate
  <1>9. OnlyBroadcast'
    <2>1. CASE scope = "crate"
      <3>1. ASSUME NEW f \in only', NEW x \in present' \ (Groups \cup Decls)
            PROVE  f \notin EverMentioned(x)
        BY <1>1, <1>6, <1>7, <2>1, MentionedInCrate
      <3>. QED  BY <1>1, <1>5, <3>1 DEF OnlyBroadcast
    <2>2. CASE scope = "bucket"  BY <1>1, <2>2 DEF OnlyBroadcast
    <2>. QED  BY <1>1, <2>1, <2>2
  <1>10. BroadcastOnlyNeverCalled'
    <2>1. ASSUME NEW f \in only', NEW x \in present' \ (Groups \cup Decls)
          PROVE  f \notin Mentioned(x)
      BY <1>1, <1>6, <1>7, <1>8
    <2>. QED  BY <1>4, <2>1 DEF BroadcastOnlyNeverCalled
  <1>. QED  BY <1>2, <1>3, <1>9, <1>10 DEF PruneInv

-----------------------------------------------------------------------------
(* What the conversions find and what they make of it.                     *)

(* A krate stays one, with the mentions of the conversions. *)
LEMMA ConvertedKrate ==
    ASSUME WellFormedKrate(krate), Convert
    PROVE  /\ WellFormedKrate(krate)'
           /\ krate'.decl = krate.simple_decl /\ krate'.body = krate.simple_body
           /\ krate'.methods = MethodsDeclared \cup krate.copies
           /\ krate'.items = krate.items
        /\ krate'.bucket_funs = krate.bucket_funs /\ krate'.bucket_types = krate.bucket_types
        /\ krate'.own = krate.own /\ krate'.crate_only = krate.crate_only
           /\ krate'.broadcast_use = krate.broadcast_use /\ krate'.reveal = krate.reveal
           /\ krate'.members = krate.members /\ krate'.default_groups = krate.default_groups
           /\ krate'.triggers = krate.triggers /\ krate'.copies = krate.copies
           /\ krate'.trait = krate.trait /\ krate'.trait_typ_args = krate.trait_typ_args
           /\ krate'.assoc_decl = krate.assoc_decl /\ krate'.assoc_self = krate.assoc_self
           /\ krate'.decl_trait = krate.decl_trait
           /\ krate'.module_reveals = krate.module_reveals
           /\ krate'.other_reveals = krate.other_reveals
  <1>1. PICK d, b, M : d = krate.simple_decl /\ b = krate.simple_body
                          /\ M = MethodsDeclared \cup krate.copies
    OBVIOUS
  <1>2. krate' = [krate EXCEPT !.decl = d, !.body = b, !.methods = M]  BY <1>1 DEF Convert
  <1>3. /\ d \in [Items \ (Groups \cup Decls) -> SUBSET Mentionable]
        /\ b \in [Funs \cup Types -> SUBSET Mentionable]
    BY <1>1 DEF WellFormedKrate, KrateRecords
  <1>4. M \in SUBSET Methods
    <2>1. krate.methods \in SUBSET Methods /\ krate.copies \in SUBSET Methods
      BY DEF WellFormedKrate, KrateRecords
    <2>. QED  BY <1>1, <2>1 DEF MethodsDeclared
  <1>5. /\ krate'.decl = d /\ krate'.body = b /\ krate'.methods = M
        /\ krate'.items = krate.items
        /\ krate'.bucket_funs = krate.bucket_funs /\ krate'.bucket_types = krate.bucket_types
        /\ krate'.own = krate.own /\ krate'.crate_only = krate.crate_only
        /\ krate'.broadcast_use = krate.broadcast_use /\ krate'.reveal = krate.reveal
        /\ krate'.members = krate.members /\ krate'.default_groups = krate.default_groups
        /\ krate'.triggers = krate.triggers /\ krate'.copies = krate.copies
        /\ krate'.trait = krate.trait /\ krate'.trait_typ_args = krate.trait_typ_args
        /\ krate'.assoc_decl = krate.assoc_decl /\ krate'.assoc_self = krate.assoc_self
        /\ krate'.decl_trait = krate.decl_trait
        /\ krate'.module_reveals = krate.module_reveals
        /\ krate'.other_reveals = krate.other_reveals
    BY <1>2 DEF WellFormedKrate, KrateRecords
  <1>6. WellFormedKrate(krate)'
    <2>1. krate' \in KrateRecords
      <3>1. krate \in KrateRecords  BY DEF WellFormedKrate
      <3>2. \A r \in KrateRecords : [r EXCEPT !.decl = d] \in KrateRecords  BY <1>3 DEF KrateRecords
      <3>3. \A r \in KrateRecords : [r EXCEPT !.body = b] \in KrateRecords  BY <1>3 DEF KrateRecords
      <3>4. \A r \in KrateRecords : [r EXCEPT !.methods = M] \in KrateRecords
        <4>1. PICK T : T = SUBSET Methods  OBVIOUS
        <4>2. M \in T  BY <1>4, <4>1
        <4>. QED  BY <4>1, <4>2 DEF KrateRecords
      <3>5. PICK r, q, p : /\ r = [krate EXCEPT !.decl = d]
                           /\ q = [r EXCEPT !.body = b]
                           /\ p = [q EXCEPT !.methods = M]
        OBVIOUS
      <3>6. r \in KrateRecords  BY <3>1, <3>2, <3>5
      <3>7. q \in KrateRecords  BY <3>3, <3>5, <3>6
      <3>8. p \in KrateRecords  BY <3>4, <3>5, <3>7
      <3>9. krate' = p  BY <1>2, <3>5
      <3>. QED  BY <3>8, <3>9
    <2>. QED  BY <1>5, <2>1 DEF WellFormedKrate
  <1>. QED  BY <1>1, <1>5, <1>6

(* What KrateAssumption says of the crate until it is converted. *)
LEMMA MadeTypes ==
    ASSUME krate \in Krates
    PROVE  /\ Convertible(krate)
           /\ Copies \subseteq Funs /\ Copies \cap krate.items = {}
           /\ Made \subseteq Funs \cup Impls \cup AssocImpls /\ Made \cap krate.items = {}
           /\ Introduced \subseteq krate.fresh /\ krate.fresh \subseteq Types
           /\ \A x \in Copies : krate.broadcast_use[x] = {} /\ krate.crate_only[x] = {}
           /\ Made \cap Funs \subseteq Copies
  <1>1. WellFormedKrate(krate) /\ Convertible(krate)  BY KrateAssumption
  <1>2. krate.copies \in SUBSET Methods /\ krate.fresh \subseteq Types  BY <1>1 DEF WellFormedKrate, KrateRecords
  <1>3. Copies \subseteq Funs  BY <1>2 DEF Copies, Methods
  <1>4. \A x \in Copies : krate.made_for[x] # {}
    <2>1. \A m \in krate.copies : krate.made_for[m.fun] = {{m.impl, krate.trait[m.impl], m.method}}
      BY <1>1, Zenon DEF Convertible
    <2>. QED  BY <2>1 DEF Copies
  <1>5. \A x \in Made : krate.made_for[x] # {}  BY DEF Made
  <1>6. \A x \in Funs \cup Impls \cup AssocImpls : krate.made_for[x] # {} =>
           /\ x \notin krate.items
           /\ x \in Funs => krate.crate_only[x] = {} /\ x \in Copies
    BY <1>1 DEF Convertible, Copies
  <1>7. \A x \in Copies : krate.broadcast_use[x] = {}  BY <1>1 DEF WellFormedKrate, KrateRecords, Copies
  <1>8. Made \subseteq Funs \cup Impls \cup AssocImpls /\ Introduced \subseteq krate.fresh
    BY DEF Made, Introduced
  <1>. QED  BY <1>1, <1>2, <1>3, <1>4, <1>5, <1>6, <1>7, <1>8

(* What is left, and what is made, is made from items that are left. *)
LEMMA MadeFromLeft ==
    ASSUME krate \in Krates, present \subseteq krate.items,
           NEW x \in (present \cup Made) \ (Groups \cup Decls)
    PROVE  \E S \in MadeFrom(krate, x) : S \subseteq present \ (Groups \cup Decls)
  <1>1. CASE x \in present
    <2>1. MadeFrom(krate, x) = {{x}}  BY <1>1 DEF MadeFrom
    <2>. QED  BY <1>1, <2>1
  <1>2. CASE x \in Made
    <2>1. x \in Funs \cup Impls \cup AssocImpls /\ x \notin krate.items  BY <1>2, MadeTypes
    <2>2. MadeFrom(krate, x) = krate.made_for[x]  BY <2>1 DEF MadeFrom
    <2>3. PICK S \in krate.made_for[x] : S \subseteq present  BY <1>2 DEF Made
    <2>4. S \subseteq krate.items \ (Groups \cup Decls)  BY <2>1, <2>3, MadeTypes DEF Convertible
    <2>. QED  BY <2>2, <2>3, <2>4
  <1>. QED  BY <1>1, <1>2

(* What an item mentions once it is converted it mentioned before, or it   *)
(* may be mentioned for what is left, or it is a type that is introduced.  *)
LEMMA ConvertedMentions ==
    ASSUME PruneInv, Convert, NEW x \in present' \ (Groups \cup Decls)
    PROVE  \E S \in SUBSET (present \ (Groups \cup Decls)) :
              EverMentioned(x)' \subseteq
                 Introduced \cup MayMention(krate, S)
                   \cup (IF x \in present THEN EverMentioned(x) ELSE {})
  <1>1. /\ krate \in Krates /\ WellFormedKrate(krate) /\ present \subseteq krate.items
        /\ present' = present \cup Made \cup Introduced
    BY DEF PruneInv, TypesOK, Convert
  <1>0. krate.items \subseteq Items  BY <1>1 DEF WellFormedKrate, KrateRecords
  <1>2. EverMentioned(x)' = Simple(krate, x)
                              \cup (IF x \in Funs \cup Types THEN krate.crate_only[x] ELSE {})
                              \cup (IF x \in Funs THEN krate.broadcast_use[x] ELSE {})
    BY <1>1, ConvertedKrate DEF EverMentioned, MentionedBy, Simple
  <1>3. x \in Items \ (Groups \cup Decls)
    BY <1>0, <1>1, MadeTypes DEF Items
  <1>4. \A y \in Items \ (Groups \cup Decls) : \A S \in MadeFrom(krate, y) :
           /\ Simple(krate, y) \ krate.fresh \subseteq MayMention(krate, S)
           /\ \A t \in Simple(krate, y) \cap krate.fresh :
                 Simple(krate, t) \subseteq MayMention(krate, S)
    BY <1>1, MadeTypes DEF Convertible
  <1>5. ASSUME NEW y \in (present \cup Made) \ (Groups \cup Decls)
        PROVE  Simple(krate, y) \cap krate.fresh \subseteq Introduced
    BY DEF Introduced
  <1>6. CASE x \in present \cup Made
    <2>1. PICK S \in MadeFrom(krate, x) : S \subseteq present \ (Groups \cup Decls)
      BY <1>1, <1>6, MadeFromLeft
    <2>2. Simple(krate, x) \subseteq Introduced \cup MayMention(krate, S)
      BY <1>3, <1>4, <1>5, <1>6, <2>1
    <2>3. CASE x \in present
      <3>1. krate.crate_only[x] \subseteq EverMentioned(x) \/ x \notin Funs \cup Types
        BY DEF EverMentioned, MentionedBy
      <3>2. krate.broadcast_use[x] \subseteq EverMentioned(x) \/ x \notin Funs
        BY DEF EverMentioned, MentionedBy
      <3>. QED  BY <1>2, <2>1, <2>2, <2>3, <3>1, <3>2
    <2>4. CASE x \notin present
      <3>1. x \notin Types  BY <1>1, <1>6, <2>4, MadeTypes, KrateAssumption
      <3>2. x \in Funs => krate.crate_only[x] = {} /\ krate.broadcast_use[x] = {}
        BY <1>1, <1>6, <2>4, MadeTypes
      <3>. QED  BY <1>2, <2>1, <2>2, <3>1, <3>2
    <2>. QED  BY <2>3, <2>4
  <1>7. CASE x \notin present \cup Made
    <2>1. x \in krate.fresh /\ x \in Types /\ x \in Introduced  BY <1>1, <1>7, MadeTypes
    <2>2. PICK y \in (present \cup Made) \ (Groups \cup Decls) : x \in Simple(krate, y)
      BY <2>1 DEF Introduced
    <2>3. y \in Items  BY <1>0, <1>1, MadeTypes DEF Items
    <2>4. PICK S \in MadeFrom(krate, y) : S \subseteq present \ (Groups \cup Decls)
      BY <1>1, MadeFromLeft
    <2>5. Simple(krate, x) \subseteq MayMention(krate, S)  BY <1>4, <2>1, <2>2, <2>3, <2>4
    <2>6. krate.crate_only[x] = {}  BY <1>1, <2>1, MadeTypes DEF Convertible
    <2>7. x \notin Funs  BY <2>1, KrateAssumption
    <2>. QED  BY <1>2, <2>4, <2>5, <2>6, <2>7
  <1>. QED  BY <1>6, <1>7

(* The functions among them were mentioned by what is left. *)
LEMMA ConvertKeeps == ASSUME PruneInv, Convert PROVE PruneInv'
  <1>1. /\ krate \in Krates /\ WellFormedKrate(krate) /\ present \subseteq krate.items
        /\ scope = "crate" /\ pruning = "no" /\ pruning' = "converted"
        /\ UNCHANGED <<scope, revealed, reached, worklist, fully, only>>
    BY DEF PruneInv, TypesOK, Convert
  <1>2. TypesOK'
    <2>1. WellFormedKrate(krate)'  BY <1>1, ConvertedKrate
    <2>. QED  BY <1>1, <2>1 DEF PruneInv, TypesOK
  <1>3. OnlyBroadcast'
    <2>1. SUFFICES ASSUME NEW f \in only, NEW x \in present' \ (Groups \cup Decls)
                   PROVE  f \notin EverMentioned(x)'
      BY <1>1 DEF OnlyBroadcast
    <2>2. f \in Funs  BY DEF PruneInv, TypesOK
    <2>3. \A y \in present \ (Groups \cup Decls) : f \notin EverMentioned(y)
      BY <1>1 DEF PruneInv, OnlyBroadcast
    <2>4. PICK S \in SUBSET (present \ (Groups \cup Decls)) :
             EverMentioned(x)' \subseteq
                Introduced \cup MayMention(krate, S)
                  \cup (IF x \in present THEN EverMentioned(x) ELSE {})
      BY ConvertedMentions
    <2>5. f \notin Introduced  BY <1>1, <2>2, MadeTypes, KrateAssumption
    <2>6. f \notin Traits /\ f \notin Types  BY <2>2, KrateAssumption
    <2>7. f \notin MayMention(krate, S)
      BY <2>3, <2>6 DEF MayMention, EverMentioned
    <2>. QED  BY <2>3, <2>4, <2>5, <2>7
  <1>4. NoneMissing' /\ NoneTooMuch' /\ CallsMarked' /\ BroadcastOnlyNeverCalled'
    BY <1>1 DEF NoneMissing, NoneTooMuch, CallsMarked, BroadcastOnlyNeverCalled
  <1>. QED  BY <1>2, <1>3, <1>4 DEF PruneInv

LEMMA PruneForBucketKeeps == ASSUME PruneInv, PruneForBucket PROVE PruneInv'
  <1>1. krate' = krate /\ WellFormedKrate(krate) /\ pruning = "converted" /\ scope = "crate"
           /\ pruning' = "yes" /\ scope' = "bucket" /\ UNCHANGED <<present, only>>
           /\ reached' = Roots' /\ worklist' = Roots'
    BY DEF PruneForBucket, PruneInv, TypesOK
  <1>2. Roots' \subseteq Items
    <2>1. VisibleGroups' \subseteq Items  BY DEF VisibleGroups, Items
    <2>2. RootModulesReveal' \subseteq Items  BY <1>1, KrateTypes DEF RootModulesReveal, Items
    <2>3. krate.bucket_funs \cup krate.bucket_types \subseteq Items  BY <1>1, KrateTypes DEF Items
    <2>. QED  BY <1>1, <2>1, <2>2, <2>3 DEF Roots, RootFunctions
  <1>3. TypesOK'
    <2>1. WellFormedKrate(krate)'  BY <1>1 DEF WellFormedKrate, KrateRecords
    <2>. QED  BY <1>1, <1>2, <2>1 DEF PruneInv, TypesOK
  <1>4. Processed' = {}  BY <1>1 DEF Processed
  <1>5. NoneMissing'
    <2>0. ASSUME NEW f \in RevealedBroadcasts' PROVE {} \notin krate'.triggers[f]
      <3>1. f \in Funs  BY <2>0 DEF RevealedBroadcasts
      <3>. QED  BY <1>1, <3>1, KrateTypes
    <2>1. LemmasKept(Processed, reached)'
      <3>1. \A trig : trig \subseteq {} => trig = {}  OBVIOUS
      <3>. QED  BY <1>4, <2>0, <3>1 DEF LemmasKept
    <2>2. Needed(Processed, reached)'
      BY <1>4, <2>1 DEF Needed, MentionsKept, MethodsKept, TraitImplsKept, AssocTypesKept, MembersKept
    <2>. QED  BY <1>1, <2>2 DEF NoneMissing
  <1>6. NoneTooMuch'  BY <1>1 DEF NoneTooMuch
  <1>7. CallsMarked'  BY <1>4 DEF CallsMarked
  <1>8. OnlyBroadcast'
    <2>1. \A x : EverMentioned(x)' = EverMentioned(x)  BY <1>1 DEF EverMentioned, MentionedBy
    <2>. QED  BY <1>1, <2>1 DEF PruneInv, OnlyBroadcast
  <1>9. BroadcastOnlyNeverCalled'  BY <1>1 DEF BroadcastOnlyNeverCalled
  <1>. QED  BY <1>3, <1>5, <1>6, <1>7, <1>8, <1>9 DEF PruneInv

LEMMA StutterKeeps == ASSUME PruneInv, UNCHANGED pruneVars PROVE PruneInv'
  <1>1. UNCHANGED <<krate, scope, pruning, present, revealed, reached, worklist, fully, only>>
    BY DEF pruneVars
  <1>2. TypesOK'  BY <1>1 DEF PruneInv, TypesOK
  <1>3. Processed' = Processed  BY <1>1 DEF Processed
  <1>4. NoneMissing'
    <2>1. PICK P, R : P = Processed /\ R = reached  OBVIOUS
    <2>2. pruning = "yes" => Needed(P, R)'  BY <1>1, <2>1, Frozen DEF PruneInv, NoneMissing
    <2>3. Processed' = P /\ reached' = R  BY <1>1, <1>3, <2>1
    <2>4. pruning = "yes" => Needed(Processed, reached)'
      BY <2>2, <2>3 DEF Needed, MentionsKept, MethodsKept, TraitImplsKept, AssocTypesKept,
         LemmasKept, MembersKept
    <2>. QED  BY <1>1, <2>4, Frozen DEF PruneInv, NoneMissing
  <1>5. NoneTooMuch'  BY <1>1, Frozen DEF PruneInv, NoneTooMuch
  <1>6. CallsMarked'  BY <1>1, <1>3, Frozen DEF PruneInv, CallsMarked
  <1>7. \A x : EverMentioned(x)' = EverMentioned(x)  BY <1>1 DEF EverMentioned, MentionedBy
  <1>8. OnlyBroadcast'  BY <1>1, <1>7 DEF PruneInv, OnlyBroadcast
  <1>9. BroadcastOnlyNeverCalled'  BY <1>1, Frozen DEF PruneInv, BroadcastOnlyNeverCalled
  <1>. QED  BY <1>2, <1>4, <1>5, <1>6, <1>8, <1>9 DEF PruneInv

-----------------------------------------------------------------------------
(* PruneInv holds in every state of the two prunings, for every crate and  *)
(* every order of the traversals (traverse_reachable).                     *)
THEOREM PruneInvariant == PruneSpec => []PruneInv
  <1>1. PruneInit => PruneInv  BY PruneInitInv
  <1>2. PruneInv /\ [PruneNext]_pruneVars => PruneInv'
    BY PopFunctionKeeps, PopGroupKeeps, PopTypeKeeps, PopTraitKeeps, PopDeclKeeps, PopOtherKeeps,
       FinishKeeps, ConvertKeeps, PruneForBucketKeeps, StutterKeeps DEF PruneNext, Traverse
  <1>. QED  BY <1>1, <1>2, PTL DEF PruneSpec

(* When the worklists are empty, what traverse_reachable has reached is    *)
(* the least set that holds the roots and is closed: for every crate,      *)
(* every bucket and every order in which the items were popped.            *)
THEOREM PruningExact == PruneSpec => []KeptExactly
  <1>1. PruneInv => KeptExactly
    <2>1. SUFFICES ASSUME PruneInv, pruning = "yes", worklist = {} PROVE ExactlyNeeded(reached)
      BY DEF KeptExactly
    <2>2. Processed = reached  BY <2>1 DEF Processed
    <2>3. Roots \subseteq reached /\ Closed(reached)  BY <2>1, <2>2 DEF PruneInv, NoneMissing, Closed
    <2>4. ASSUME NEW S \in SUBSET (reached \ Roots), Closed(Roots \cup S)
          PROVE  Roots \cup S = reached
      <3>1. Roots \cup S \in SUBSET Items  BY <2>1, <2>3 DEF PruneInv, TypesOK
      <3>2. reached \subseteq Roots \cup S  BY <2>1, <2>4, <3>1 DEF PruneInv, NoneTooMuch
      <3>. QED  BY <2>3, <3>2
    <2>. QED  BY <2>3, <2>4 DEF ExactlyNeeded
  <1>. QED  BY <1>1, PruneInvariant, PTL

(* No function that set_broadcast_only marks, for the crate or for the     *)
(* bucket, is mentioned by an item that is kept.                           *)
THEOREM BroadcastOnlySound == PruneSpec => []BroadcastOnlyNeverCalled
  <1>1. PruneInv => BroadcastOnlyNeverCalled  BY DEF PruneInv
  <1>. QED  BY <1>1, PruneInvariant, PTL

-----------------------------------------------------------------------------
(* What is revealed, round by round.                                       *)

(* A set of numbers has a least one: the form of induction used here. *)
LEMMA LeastNumber ==
    ASSUME NEW T \in SUBSET Nat, T # {}
    PROVE  \E x \in T : \A y \in T : x <= y
  <1> DEFINE Less == OpToRel(<, Nat)
  <1>1. IsWellFoundedOn(Less, Nat)  BY NatLessThanWellFounded
  <1>2. \A x, y \in Nat : <<x, y>> \in Less <=> x < y  BY DEF OpToRel
  <1>. HIDE DEF Less
  <1>3. PICK x \in T : \A y \in T : ~(<<y, x>> \in Less)  BY <1>1, WFMin
  <1>4. ASSUME NEW y \in T PROVE x <= y
    <2>1. x \in Nat /\ y \in Nat  OBVIOUS
    <2>2. ~(y < x)  BY <1>2, <1>3, <2>1
    <2>. QED  BY <2>1, <2>2
  <1>. QED  BY <1>4

(* One round of overapproximate_revealed_functions. *)
MembersAdded(r, groups) == r \cup UNION {krate.members[g] : g \in r \cap groups}

(* f[n] is what is revealed after n rounds. *)
Rounds(f, direct, groups, N) ==
    f = [n \in 0..N |-> IF n = 0 THEN direct ELSE MembersAdded(f[n - 1], groups)]

(* However many rounds, there is such an f: the recursion is well defined. *)
LEMMA RoundsExist ==
    ASSUME NEW direct, NEW groups, NEW N \in Nat
    PROVE  \E f : Rounds(f, direct, groups, N)
  <1> DEFINE Bad == {n \in Nat : ~\E f : Rounds(f, direct, groups, n)}
  <1>1. SUFFICES ASSUME Bad # {} PROVE FALSE
    OBVIOUS
  <1>2. Bad \in SUBSET Nat  OBVIOUS
  <1>3. PICK m \in Bad : \A y \in Bad : m <= y
    <2>. HIDE DEF Bad
    <2>. QED  BY <1>1, <1>2, LeastNumber
  <1>4. m \in Nat /\ ~\E f : Rounds(f, direct, groups, m)  BY <1>3
  <1>5. m # 0
    <2>1. PICK f : f = [n \in 0..0 |-> direct]  OBVIOUS
    <2>2. Rounds(f, direct, groups, 0)  BY <2>1 DEF Rounds
    <2>. QED  BY <1>4, <2>2
  <1>6. m - 1 \in Nat /\ m - 1 \notin Bad
    <2>1. m - 1 \in Nat /\ ~(m <= m - 1)  BY <1>4, <1>5
    <2>. QED  BY <1>3, <2>1
  <1>7. PICK f : Rounds(f, direct, groups, m - 1)  BY <1>6
  <1>8. PICK g : g = [n \in 0..m |-> IF n < m THEN f[n] ELSE MembersAdded(f[m - 1], groups)]  OBVIOUS
  <1>9. ASSUME NEW n \in 0..m
        PROVE  g[n] = IF n = 0 THEN direct ELSE MembersAdded(g[n - 1], groups)
    <2>1. CASE n = 0
      <3>1. 0 < m /\ 0 \in 0..(m - 1)  BY <1>4, <1>5
      <3>2. f[0] = direct  BY <1>7, <3>1 DEF Rounds
      <3>. QED  BY <1>8, <2>1, <3>1, <3>2
    <2>2. CASE n # 0
      <3>1. n - 1 \in 0..m /\ n - 1 < m /\ n - 1 \in 0..(m - 1)  BY <1>4, <2>2
      <3>2. g[n - 1] = f[n - 1]  BY <1>8, <3>1
      <3>3. CASE n = m  BY <1>4, <1>8, <2>2, <3>2, <3>3
      <3>4. CASE n # m
        <4>1. n < m /\ n \in 0..(m - 1)  BY <1>4, <3>4
        <4>2. f[n] = MembersAdded(f[n - 1], groups)  BY <1>7, <2>2, <4>1 DEF Rounds
        <4>3. g[n] = f[n]  BY <1>8, <4>1
        <4>. QED  BY <2>2, <3>2, <4>2, <4>3
      <3>. QED  BY <3>3, <3>4
    <2>. QED  BY <2>1, <2>2
  <1>10. g = [n \in 0..m |-> g[n]]  BY <1>8
  <1>11. Rounds(g, direct, groups, m)  BY <1>9, <1>10 DEF Rounds
  <1>. QED  BY <1>4, <1>11

NumGroups == Cardinality(Groups)

LEMMA NumGroupsNat == NumGroups \in Nat
  <1>1. IsFiniteSet(Items) /\ Groups \subseteq Items  BY KrateAssumption DEF Items
  <1>2. IsFiniteSet(Groups)  BY <1>1, FS_Subset
  <1>. QED  BY <1>2, FS_CardinalityType DEF NumGroups

(* So WithMembers is the last of its rounds. *)
LEMMA WithMembersRounds ==
    ASSUME NEW direct, NEW groups
    PROVE  \E f : Rounds(f, direct, groups, NumGroups) /\ WithMembers(direct, groups) = f[NumGroups]
  <1>1. \E f : Rounds(f, direct, groups, NumGroups)  BY NumGroupsNat, RoundsExist
  <1>2. PICK R : R = CHOOSE f : Rounds(f, direct, groups, NumGroups)  OBVIOUS
  <1>3. Rounds(R, direct, groups, NumGroups)  BY <1>1, <1>2
  <1>4. WithMembers(direct, groups) = R[NumGroups]
    BY <1>2 DEF WithMembers, Rounds, MembersAdded, NumGroups
  <1>. QED  BY <1>3, <1>4

(* More to begin with and more groups reveal more. *)
LEMMA WithMembersMore ==
    ASSUME NEW d, NEW e, NEW S, NEW T, d \subseteq e, S \subseteq T
    PROVE  WithMembers(d, S) \subseteq WithMembers(e, T)
  <1>1. PICK f : Rounds(f, d, S, NumGroups) /\ WithMembers(d, S) = f[NumGroups]  BY WithMembersRounds
  <1>2. PICK h : Rounds(h, e, T, NumGroups) /\ WithMembers(e, T) = h[NumGroups]  BY WithMembersRounds
  <1> DEFINE Bad == {n \in 0..NumGroups : ~(f[n] \subseteq h[n])}
  <1>3. ASSUME Bad # {} PROVE FALSE
    <2>1. Bad \in SUBSET Nat  OBVIOUS
    <2>2. PICK m \in Bad : \A y \in Bad : m <= y
      <3>. HIDE DEF Bad
      <3>. QED  BY <1>3, <2>1, LeastNumber
    <2>3. m \in 0..NumGroups /\ ~(f[m] \subseteq h[m])  BY <2>2
    <2>4. m # 0  BY <1>1, <1>2, <2>3 DEF Rounds
    <2>5. m - 1 \in 0..NumGroups /\ ~(m <= m - 1)  BY NumGroupsNat, <2>3, <2>4
    <2>6. m - 1 \notin Bad  BY <2>2, <2>5
    <2>7. f[m - 1] \subseteq h[m - 1]  BY <2>5, <2>6
    <2>8. f[m] = MembersAdded(f[m - 1], S) /\ h[m] = MembersAdded(h[m - 1], T)
      BY <1>1, <1>2, <2>3, <2>4 DEF Rounds
    <2>. QED  BY <2>3, <2>7, <2>8 DEF MembersAdded
  <1>4. NumGroups \in 0..NumGroups  BY NumGroupsNat
  <1>5. f[NumGroups] \subseteq h[NumGroups]  BY <1>3, <1>4
  <1>. QED  BY <1>1, <1>2, <1>5

(* Groups that are never revealed reveal nothing. *)
LEMMA WithMembersSame ==
    ASSUME NEW d, NEW S, NEW T \in SUBSET Groups, NEW K, S = T \cap K,
           d \cap Groups \subseteq K,
           \A g \in Groups \cap K : krate.members[g] \cap Groups \subseteq K
    PROVE  WithMembers(d, S) = WithMembers(d, T)
  <1>1. PICK f : Rounds(f, d, S, NumGroups) /\ WithMembers(d, S) = f[NumGroups]  BY WithMembersRounds
  <1>2. PICK h : Rounds(h, d, T, NumGroups) /\ WithMembers(d, T) = h[NumGroups]  BY WithMembersRounds
  <1> DEFINE Bad == {n \in 0..NumGroups : ~(f[n] = h[n] /\ h[n] \cap Groups \subseteq K)}
  <1>3. ASSUME Bad # {} PROVE FALSE
    <2>1. Bad \in SUBSET Nat  OBVIOUS
    <2>2. PICK m \in Bad : \A y \in Bad : m <= y
      <3>. HIDE DEF Bad
      <3>. QED  BY <1>3, <2>1, LeastNumber
    <2>3. m \in 0..NumGroups /\ ~(f[m] = h[m] /\ h[m] \cap Groups \subseteq K)  BY <2>2
    <2>4. m # 0  BY <1>1, <1>2, <2>3 DEF Rounds
    <2>5. m - 1 \in 0..NumGroups /\ ~(m <= m - 1)  BY NumGroupsNat, <2>3, <2>4
    <2>6. m - 1 \notin Bad  BY <2>2, <2>5
    <2>7. f[m - 1] = h[m - 1] /\ h[m - 1] \cap Groups \subseteq K  BY <2>5, <2>6
    <2>8. f[m] = MembersAdded(f[m - 1], S) /\ h[m] = MembersAdded(h[m - 1], T)
      BY <1>1, <1>2, <2>3, <2>4 DEF Rounds
    <2>9. h[m - 1] \cap S = h[m - 1] \cap T  BY <2>7
    <2>10. f[m] = h[m]  BY <2>7, <2>8, <2>9 DEF MembersAdded
    <2>11. h[m] \cap Groups \subseteq K  BY <2>7, <2>8 DEF MembersAdded
    <2>. QED  BY <2>3, <2>10, <2>11
  <1>4. NumGroups \in 0..NumGroups  BY NumGroupsNat
  <1>5. f[NumGroups] = h[NumGroups]  BY <1>3, <1>4
  <1>. QED  BY <1>1, <1>2, <1>5

-----------------------------------------------------------------------------
(* What the first pruning has left.                                        *)

(* What WellFormedKrate says of the roots and of what is revealed. *)
LEMMA OwnTypes ==
    ASSUME WellFormedKrate(krate)
    PROVE  /\ krate.bucket_types \subseteq krate.own
           /\ krate.bucket_funs \subseteq krate.own \cup Copies
           /\ krate.default_groups \subseteq Groups
           /\ \A f \in Funs : krate.reveal[f] \subseteq Funs
           /\ \A f \in Copies : krate.broadcast_use[f] = {} /\ krate.reveal[f] = {}
  <1>1. krate.reveal \in [Funs -> SUBSET Funs] /\ krate.default_groups \subseteq Groups
    BY DEF WellFormedKrate, KrateRecords
  <1>2. \A m \in krate.copies : krate.broadcast_use[m.fun] \cup krate.reveal[m.fun] = {}
    BY DEF WellFormedKrate
  <1>3. \A f \in Copies : krate.broadcast_use[f] = {} /\ krate.reveal[f] = {}
    BY <1>2 DEF Copies
  <1>4. krate.bucket_types \subseteq krate.own /\ krate.bucket_funs \subseteq krate.own \cup Copies
    BY DEF WellFormedKrate, Copies
  <1>. QED  BY <1>1, <1>3, <1>4

(* The bucket's pruning of all there is reveals members the same way. *)
LEMMA SameWithMembers ==
    ASSUME NEW direct, NEW groups
    PROVE  Merged!WithMembers(direct, groups) = WithMembers(direct, groups)
  <1>1. PICK R : R = CHOOSE f : Rounds(f, direct, groups, NumGroups)  OBVIOUS
  <1>2. WithMembers(direct, groups) = R[NumGroups]
    BY <1>1 DEF WithMembers, Rounds, MembersAdded, NumGroups
  <1>3. Merged!Cardinality(Groups) = NumGroups
    BY DEF Merged!Cardinality, Cardinality, NumGroups
  <1>4. Merged!WithMembers(direct, groups) = R[NumGroups]
    BY <1>1, <1>3 DEF Merged!WithMembers, Rounds, MembersAdded
  <1>. QED  BY <1>2, <1>4

(* What is revealed by the crate stays when the members of the groups do. *)
LEMMA SameMembers ==
    ASSUME krate'.members = krate.members
    PROVE  \A d, S : WithMembers(d, S)' = WithMembers(d, S)
  BY DEF WithMembers

(* What an item mentions in some scope is an item. *)
LEMMA EverMentionedTypes ==
    ASSUME WellFormedKrate(krate), NEW x \in Items \ (Groups \cup Decls)
    PROVE  EverMentioned(x) \subseteq Items
  <1>1. Mentionable \subseteq Items  BY DEF Mentionable, Items
  <1>2. krate.decl[x] \subseteq Items  BY <1>1, KrateTypes
  <1>3. x \in Funs \cup Types => krate.body[x] \subseteq Items  BY <1>1, KrateTypes
  <1>4. x \in Funs => krate.broadcast_use[x] \subseteq Items  BY KrateTypes DEF Items
  <1>5. x \in Funs \cup Types => krate.crate_only[x] \subseteq Items  BY KrateTypes DEF Items
  <1>. QED  BY <1>2, <1>3, <1>4, <1>5 DEF EverMentioned, MentionedBy

(* In the scope of the crate whatever there is exists and is seen. *)
LEMMA CrateSees ==
    ASSUME WellFormedKrate(krate), scope = "crate", revealed = RevealedWithMembers,
           Groups \subseteq present
    PROVE  /\ VisibleGroups = Groups
           /\ RevealedDirectly = CrateReveals
           /\ RevealedBroadcasts = CrateLemmas \cap present
           /\ Roots = krate.own \cup krate.module_reveals \cup krate.other_reveals
                        \cup (Groups \cap CrateReveals)
           /\ \A S : S \cap present \subseteq Existing(S)
           /\ \A x \in present : Mentioned(x) = EverMentioned(x)
  <1>1. VisibleGroups = Groups  BY DEF VisibleGroups
  <1>2. present \cap krate.default_groups = krate.default_groups  BY OwnTypes
  <1>3. RevealedDirectly = CrateReveals
    BY <1>2 DEF RevealedDirectly, RootFunctions, RootModulesReveal, CrateReveals
  <1>4. RevealedBroadcasts = CrateLemmas \cap present
    BY <1>1, <1>3 DEF RevealedBroadcasts, RevealedWithMembers, CrateLemmas
  <1>5. Roots = krate.own \cup krate.module_reveals \cup krate.other_reveals
                  \cup (Groups \cap CrateReveals)
    BY <1>1, <1>3 DEF Roots, RootModulesReveal
  <1>6. \A S : S \cap present \subseteq Existing(S)  BY <1>1 DEF Existing
  <1>7. \A x \in present : Mentioned(x) = EverMentioned(x)
    BY DEF Mentioned, HasBody, EverMentioned, MentionedBy
  <1>. QED  BY <1>1, <1>3, <1>4, <1>5, <1>6, <1>7

(* What the crate's pruning leaves is complete. *)
LEMMA FinishFirst ==
    ASSUME TwiceInv, PruneInv, Finish, scope = "crate"
    PROVE  FirstComplete'
  <1>1. /\ WellFormedKrate(krate) /\ krate \in Krates /\ pruning = "yes" /\ worklist = {}
        /\ present' = present \cap reached /\ krate' = krate /\ all' = all
        /\ revealed = RevealedWithMembers /\ all = krate.items /\ present = all
    BY DEF Finish, PruneInv, TypesOK, TwiceInv
  <1>2. all \subseteq Items /\ Groups \cup Traits \cup Decls \cup Opaques \subseteq all
    BY <1>1 DEF WellFormedKrate, KrateRecords
  <1>3. Roots \subseteq reached /\ Needed(reached, reached)
    BY <1>1 DEF PruneInv, NoneMissing, Processed
  <1>4. /\ RevealedBroadcasts = CrateLemmas \cap all
        /\ Roots = krate.own \cup krate.module_reveals \cup krate.other_reveals
                        \cup (Groups \cap CrateReveals)
        /\ \A S : S \cap all \subseteq Existing(S)
        /\ \A x \in all : Mentioned(x) = EverMentioned(x)
    <2>1. Groups \subseteq present  BY <1>1, <1>2
    <2>. QED  BY <1>1, <2>1, CrateSees
  <1>5. Copies \cap all = {}  BY <1>1, MadeTypes
  <1>6. PICK K : K = present'  OBVIOUS
  <1>7. K = all \cap reached  BY <1>1, <1>6
  <1>8. CrateReveals' = CrateReveals  BY <1>1 DEF CrateReveals
  <1>9. CrateLemmas' = CrateLemmas  BY <1>1, <1>8, SameMembers DEF CrateLemmas
  <1>10. \A x : EverMentioned(x)' = EverMentioned(x)  BY <1>1 DEF EverMentioned, MentionedBy
  <1>11. ASSUME NEW x \in K \ (Groups \cup Decls) PROVE EverMentioned(x) \cap all \subseteq K
    <2>1. Existing(Mentioned(x)) \subseteq reached  BY <1>3, <1>7 DEF Needed, MentionsKept
    <2>2. Mentioned(x) = EverMentioned(x)  BY <1>4, <1>7
    <2>3. Mentioned(x) \cap all \subseteq Existing(Mentioned(x))  BY <1>4
    <2>. QED  BY <1>7, <2>1, <2>2, <2>3
  <1>12. ASSUME NEW m \in krate.methods
         PROVE  /\ m.fun \in K /\ m.method \in all => m.method \in K
                /\ m.method \in K /\ m.self \in K \cup {None} /\ m.fun \in all => m.fun \in K
    <2>1. ASSUME NEW y \in all, Existing({y}) \subseteq reached PROVE y \in K
      <3>1. {y} \cap all \subseteq Existing({y})  BY <1>4
      <3>. QED  BY <1>7, <2>1, <3>1
    <2>2. PICK y, z : y = m.fun /\ z = m.method  OBVIOUS
    <2>3. /\ y \in reached => Existing({z}) \subseteq reached
          /\ z \in reached /\ m.self \in reached \cup {None} => Existing({y}) \subseteq reached
      BY <1>3, <2>2 DEF Needed, MethodsKept
    <2>4. y \in K /\ z \in all => z \in K  BY <1>7, <2>1, <2>3
    <2>5. z \in K /\ m.self \in K \cup {None} /\ y \in all => y \in K  BY <1>7, <2>1, <2>3
    <2>. QED  BY <2>2, <2>4, <2>5
  <1>13. \A i \in Impls \cap all :
            krate.trait[i] \in K /\ krate.trait_typ_args[i] \ {None} \subseteq K => i \in K
    BY <1>1, <1>3, <1>7 DEF Needed, TraitImplsKept
  <1>14. \A a \in AssocImpls \cap all :
            krate.assoc_decl[a] \in K /\ krate.assoc_self[a] \in K \cup {None} => a \in K
    BY <1>1, <1>3, <1>7 DEF Needed, AssocTypesKept
  <1>15. \A d \in Decls \cap K : krate.decl_trait[d] \in K
    BY <1>1, <1>2, <1>3, <1>7, KrateTypes DEF Needed, AssocTypesKept
  <1>16. \A f \in CrateLemmas \cap all :
            (\E trig \in krate.triggers[f] : trig \subseteq K) => f \in K
    BY <1>3, <1>4, <1>7 DEF Needed, LemmasKept
  <1>17. ASSUME NEW g \in Groups \cap K, NEW m \in krate.members[g] \cap all,
                m \notin CrateLemmas \/ krate.triggers[m] = {}
         PROVE  m \in K
    <2>1. m \in Existing(krate.members[g])
      <3>1. krate.members[g] \cap all \subseteq Existing(krate.members[g])  BY <1>4
      <3>. QED  BY <3>1
    <2>2. m \notin RevealedBroadcasts \/ krate.triggers[m] = {}  BY <1>4, <1>17
    <2>3. m \in reached  BY <1>3, <1>7, <2>1, <2>2 DEF Needed, MembersKept
    <2>. QED  BY <1>7, <2>3
  <1>18. FirstRules'
    <2>1. /\ \A x \in present' \ (Groups \cup Decls) : EverMentioned(x)' \cap all' \subseteq present'
          /\ \A m \in krate'.methods :
                /\ m.fun \in present' /\ m.method \in all' => m.method \in present'
                /\ m.method \in present' /\ m.self \in present' \cup {None} /\ m.fun \in all'
                      => m.fun \in present'
      BY <1>1, <1>6, <1>10, <1>11, <1>12
    <2>2. /\ \A i \in Impls \cap all' :
                krate'.trait[i] \in present' /\ krate'.trait_typ_args[i] \ {None} \subseteq present'
                   => i \in present'
          /\ \A a \in AssocImpls \cap all' :
                krate'.assoc_decl[a] \in present' /\ krate'.assoc_self[a] \in present' \cup {None}
                   => a \in present'
          /\ \A d \in Decls \cap present' : krate'.decl_trait[d] \in present'
      BY <1>1, <1>6, <1>13, <1>14, <1>15
    <2>3. /\ \A f \in CrateLemmas' \cap all' :
                (\E trig \in krate'.triggers[f] : trig \subseteq present') => f \in present'
          /\ \A g \in Groups \cap present' : \A m \in krate'.members[g] \cap all' :
                m \notin CrateLemmas' \/ krate'.triggers[m] = {} => m \in present'
      BY <1>1, <1>6, <1>9, <1>16, <1>17
    <2>. QED  BY <2>1, <2>2, <2>3 DEF FirstRules
  <1>19. krate.own \cup krate.module_reveals \cup krate.other_reveals
           \cup (Groups \cap CrateReveals) \subseteq K
    <2>1. krate.own \cup krate.module_reveals \cup krate.other_reveals \subseteq all
      BY <1>1 DEF WellFormedKrate
    <2>. QED  BY <1>2, <1>3, <1>4, <1>7, <2>1
  <1>20. Copies' = Copies  BY <1>1 DEF Copies
  <1>. QED  BY <1>1, <1>2, <1>5, <1>6, <1>7, <1>8, <1>18, <1>19, <1>20 DEF FirstComplete

-----------------------------------------------------------------------------
(* The conversions, between the two prunings.                              *)

(* The crate's pruning is over, and what it has left is complete. *)
BeforeConversion ==
    /\ krate \in Krates /\ WellFormedKrate(krate)
    /\ all = krate.items
    /\ FirstComplete

(* What is made of what is left: nothing but copies, implementations and   *)
(* types, and only types it had already.                                   *)
LEMMA MadeKinds ==
    ASSUME BeforeConversion
    PROVE  /\ Made \subseteq Funs \cup Impls \cup AssocImpls /\ Made \cap all = {}
           /\ Made \cap Funs \subseteq Copies /\ Copies \subseteq Funs /\ Copies \cap all = {}
           /\ CopiesDue \subseteq Copies
           /\ Introduced \subseteq Types
           /\ Late \subseteq (Funs \cup Impls \cup AssocImpls) \cap all /\ Late \cap present = {}
  <1>1. CopiesDue \subseteq Copies  BY DEF CopiesDue, Copies
  <1>2. Late \subseteq all /\ Late \cap present = {}  BY DEF Late
  <1>3. ASSUME NEW x \in Late PROVE x \in Funs \cup Impls \cup AssocImpls
    <2>1. Awaits(x) # {}  BY DEF Late
    <2>2. ASSUME NEW m \in krate.methods, m.fun = x PROVE x \in Funs
      BY <2>2, KrateTypes DEF BeforeConversion
    <2>. QED  BY <2>1, <2>2 DEF Awaits
  <1>. QED  BY <1>1, <1>2, <1>3, MadeTypes DEF BeforeConversion

(* A copy is made exactly when it would be without the crate's pruning. *)
LEMMA CopiesMade ==
    ASSUME BeforeConversion
    PROVE  Made \cap Copies = CopiesDue
  <1>1. /\ krate \in Krates /\ WellFormedKrate(krate) /\ Convertible(krate) /\ all = krate.items
        /\ present \subseteq all /\ Traits \subseteq all /\ FirstRules
    BY MadeTypes DEF BeforeConversion, FirstComplete
  <1>2. ASSUME NEW m \in krate.copies
        PROVE  /\ m.fun \in Funs /\ m.method \in Funs /\ m.impl \in Impls
               /\ {m.method, m.impl} \subseteq all
               /\ krate.trait[m.impl] \in krate.decl[m.method] /\ krate.trait[m.impl] \in Traits
               /\ krate.made_for[m.fun] = {{m.impl, krate.trait[m.impl], m.method}}
               /\ \A n \in krate.copies : n.fun = m.fun => n = m
    <2>1. krate.copies \in SUBSET Methods  BY <1>1 DEF WellFormedKrate, KrateRecords
    <2>2. m.fun \in Funs /\ m.method \in Funs /\ m.impl \in Impls  BY <2>1 DEF Methods
    <2>3. krate.trait[m.impl] \in Traits  BY <1>1, <2>2, KrateTypes
    <2>4. /\ {m.method, m.impl} \subseteq krate.items
          /\ krate.trait[m.impl] \in krate.decl[m.method]
          /\ krate.made_for[m.fun] = {{m.impl, krate.trait[m.impl], m.method}}
          /\ \A n \in krate.copies : n.fun = m.fun => n = m
      BY <1>1, Zenon DEF Convertible
    <2>. QED  BY <1>1, <2>2, <2>3, <2>4
  <1>3. ASSUME NEW m \in krate.copies, {m.impl, m.method} \subseteq present
        PROVE  /\ krate.trait_typ_args[m.impl] \ {None} \subseteq present
               /\ Overridden(m, all) => Overridden(m, present)
    <2>1. m.impl \in Impls /\ m.impl \in present \ (Groups \cup Decls)
      BY <1>2, <1>3, KrateAssumption
    <2>2. krate.trait_typ_args[m.impl] \ {None} \subseteq krate.decl[m.impl] \cap all
      <3>1. \A i \in Impls \cap krate.items :
               krate.trait_typ_args[i] \ {None} \subseteq krate.decl[i] \cap krate.items
        BY <1>1 DEF Convertible
      <3>. QED  BY <1>1, <2>1, <3>1
    <2>3. krate.decl[m.impl] \subseteq EverMentioned(m.impl)  BY DEF EverMentioned, MentionedBy
    <2>4. krate.trait_typ_args[m.impl] \ {None} \subseteq present
      BY <1>1, <2>1, <2>2, <2>3 DEF FirstRules
    <2>5. ASSUME NEW o \in krate.methods, o.impl = m.impl, o.method = m.method, o.fun \in all
          PROVE  o.fun \in present
      <3>1. o.self \in krate.trait_typ_args[o.impl]  BY <1>1, Zenon DEF Convertible
      <3>2. o.self \in present \cup {None}  BY <2>4, <2>5, <3>1
      <3>. QED  BY <1>1, <1>3, <2>5, <3>2 DEF FirstRules
    <2>. QED  BY <2>4, <2>5 DEF Overridden
  <1>4. ASSUME NEW x \in Made \cap Copies PROVE x \in CopiesDue
    <2>1. PICK m \in krate.copies : x = m.fun  BY DEF Copies
    <2>2. \E S \in krate.made_for[x] : S \subseteq present  BY DEF Made
    <2>3. {m.impl, m.method} \subseteq present  BY <1>2, <2>1, <2>2
    <2>4. ~Overridden(m, present)  BY <2>1 DEF Made
    <2>. QED  BY <1>3, <2>1, <2>3, <2>4 DEF CopiesDue
  <1>5. ASSUME NEW x \in CopiesDue PROVE x \in Made \cap Copies
    <2>1. PICK m \in krate.copies :
             /\ x = m.fun /\ m.method \in present /\ ~Overridden(m, all)
             /\ krate.trait_typ_args[m.impl] \ {None} \subseteq present
      BY DEF CopiesDue
    <2>2. m.method \in present \ (Groups \cup Decls)  BY <1>2, <2>1, KrateAssumption
    <2>3. krate.decl[m.method] \subseteq EverMentioned(m.method)  BY DEF EverMentioned, MentionedBy
    <2>4. krate.trait[m.impl] \in present  BY <1>1, <1>2, <2>2, <2>3 DEF FirstRules
    <2>5. m.impl \in present  BY <1>1, <1>2, <2>1, <2>4 DEF FirstRules
    <2>6. {m.impl, krate.trait[m.impl], m.method} \subseteq present  BY <2>1, <2>4, <2>5
    <2>7. \E S \in krate.made_for[x] : S \subseteq present
      <3>1. PICK S : S = {m.impl, krate.trait[m.impl], m.method}  OBVIOUS
      <3>2. S \in krate.made_for[x]  BY <1>2, <2>1, <3>1
      <3>. QED  BY <2>6, <3>1, <3>2
    <2>8. ~Overridden(m, present)  BY <1>1, <2>1 DEF Overridden
    <2>9. ASSUME NEW n \in krate.copies, n.fun = x PROVE ~Overridden(n, present)
      <3>1. n = m  BY <1>2, <2>1, <2>9
      <3>. QED  BY <2>8, <3>1
    <2>10. x \in Funs /\ x \in Copies  BY <1>2, <2>1 DEF Copies
    <2>. QED  BY <2>7, <2>9, <2>10 DEF Made
  <1>. QED  BY <1>4, <1>5

(* What the conversions may mention of all there was is left. *)
LEMMA MayKept ==
    ASSUME BeforeConversion, NEW S \in SUBSET (present \ (Groups \cup Decls))
    PROVE  MayMention(krate, S) \cap all \subseteq present
  <1>1. present \subseteq all /\ all = krate.items
           /\ \A x \in present \ (Groups \cup Decls) : MentionedBy(krate, x) \cap all \subseteq present
    BY DEF BeforeConversion, FirstComplete, FirstRules, EverMentioned
  <1>2. PICK seen : seen = (S \cap Traits) \cup UNION {MentionedBy(krate, y) : y \in S}  OBVIOUS
  <1>3. seen \cap all \subseteq present  BY <1>1, <1>2
  <1>4. ASSUME NEW t \in seen \cap Types \cap krate.items
        PROVE  MentionedBy(krate, t) \cap all \subseteq present
    <2>1. t \in present \ (Groups \cup Decls)  BY <1>1, <1>3, KrateAssumption
    <2>. QED  BY <1>1, <2>1
  <1>5. MayMention(krate, S) = seen \cup (Types \cap UNION {MentionedBy(krate, t) : t \in seen \cap Types \cap krate.items})
    BY <1>2 DEF MayMention
  <1>. QED  BY <1>3, <1>4, <1>5

(* Once converted, what is left still has all that the rules ask for. *)
LEMMA ConvertFirst ==
    ASSUME PruneInv, BeforeConversion, Convert
    PROVE  FirstComplete'
  <1>. DEFINE P == present'
              A == all'
  <1>1. /\ krate \in Krates /\ WellFormedKrate(krate) /\ Convertible(krate) /\ all = krate.items
        /\ present \subseteq all /\ all \subseteq Items
        /\ Groups \cup Traits \cup Decls \cup Opaques \subseteq all /\ FirstRules
    BY MadeTypes DEF BeforeConversion, FirstComplete
  <1>2. /\ P = present \cup Made \cup Introduced
        /\ A = (all \ Late) \cup CopiesDue \cup (Made \ Copies) \cup Introduced
    BY DEF Convert
  <1>3. P \subseteq A  BY <1>1, <1>2, CopiesMade, MadeKinds
  <1>4. A \subseteq Items  BY <1>1, <1>2, MadeKinds DEF Items
  <1>5. Groups \cup Traits \cup Decls \cup Opaques \subseteq A
    BY <1>1, <1>2, MadeKinds, KrateAssumption
  <1>6. A \ all \subseteq P  BY <1>1, <1>2, CopiesMade
  <1>7. all \cap A \cap Late = {}  BY <1>2, MadeKinds, KrateAssumption
  <1>8. /\ P \cap (Groups \cup Traits \cup Decls) \subseteq present
        /\ P \cap Types \subseteq present \cup (Introduced \ present)
        /\ P \cap Funs \subseteq present \cup Copies
    BY <1>2, MadeKinds, KrateAssumption
  <1>9. ASSUME NEW x \in all \cap A, Awaits(x) \cap (Introduced \ present) # {} PROVE x \in P
    BY <1>2, <1>7, <1>9 DEF Late
  <1>. HIDE DEF P, A
  <1>10. Copies \cap A \subseteq P  BY <1>6, MadeKinds
  <1>11. ASSUME NEW x \in P \ (Groups \cup Decls) PROVE EverMentioned(x)' \cap A \subseteq P
    <2>1. PICK S \in SUBSET (present \ (Groups \cup Decls)) :
             EverMentioned(x)' \subseteq
                Introduced \cup MayMention(krate, S)
                  \cup (IF x \in present THEN EverMentioned(x) ELSE {})
      BY <1>11, ConvertedMentions DEF P
    <2>2. MayMention(krate, S) \cap all \subseteq present  BY MayKept
    <2>3. x \in present => EverMentioned(x) \cap all \subseteq present  BY <1>1, <1>11 DEF FirstRules
    <2>4. present \cup Introduced \subseteq P  BY <1>2
    <2>. QED  BY <1>6, <2>1, <2>2, <2>3, <2>4
  <1>12. ASSUME NEW m \in krate'.methods
         PROVE  /\ m.fun \in P /\ m.method \in A => m.method \in P
                /\ m.method \in P /\ m.self \in P \cup {None} /\ m.fun \in A => m.fun \in P
    <2>1. m \in MethodsDeclared \cup krate.copies  BY <1>1, ConvertedKrate
    <2>2. CASE m \in MethodsDeclared
      <3>1. m \in krate.methods /\ m.method \in all  BY <1>1, <2>2 DEF MethodsDeclared
      <3>2. m.fun \in all  BY <1>1, <3>1, Zenon DEF Convertible
      <3>3. m.fun \in Funs /\ m.method \in Funs /\ m.self \in Types \cup {None}
        BY <1>1, <3>1, KrateTypes
      <3>4. m.fun \in P => m.fun \in present  BY <1>8, <3>2, <3>3, MadeKinds
      <3>5. m.method \in P => m.method \in present  BY <1>8, <3>1, <3>3, MadeKinds
      <3>6. /\ m.fun \in present /\ m.method \in all => m.method \in present
            /\ m.method \in present /\ m.self \in present \cup {None} /\ m.fun \in all
                  => m.fun \in present
        BY <1>1, <3>1 DEF FirstRules
      <3>7. present \subseteq P  BY <1>2
      <3>8. ASSUME m.self \in P \ present, m.fun \in A, m.self # None PROVE m.fun \in P
        <4>1. m.self \in Introduced \ present  BY <1>8, <3>3, <3>8
        <4>2. m.self \in Awaits(m.fun)  BY <3>1 DEF Awaits
        <4>. QED  BY <1>9, <3>2, <3>8, <4>1, <4>2
      <3>. QED  BY <3>1, <3>2, <3>4, <3>5, <3>6, <3>7, <3>8
    <2>3. CASE m \in krate.copies
      <3>1. m.fun \in Copies  BY <2>3 DEF Copies
      <3>2. ASSUME m.fun \in P PROVE m.method \in P
        <4>1. m.fun \in Made
          BY <1>1, <1>2, <3>1, <3>2, MadeKinds, KrateAssumption
        <4>2. PICK S \in krate.made_for[m.fun] : S \subseteq present  BY <4>1 DEF Made
        <4>3. krate.made_for[m.fun] = {{m.impl, krate.trait[m.impl], m.method}}
          BY <1>1, <2>3, Zenon DEF Convertible
        <4>. QED  BY <1>2, <4>2, <4>3
      <3>. QED  BY <1>10, <3>1, <3>2
    <2>. QED  BY <2>1, <2>2, <2>3
  <1>13. ASSUME NEW i \in Impls \cap A, krate.trait[i] \in P,
                krate.trait_typ_args[i] \ {None} \subseteq P
         PROVE  i \in P
    <2>1. krate.trait[i] \in Traits /\ krate.trait_typ_args[i] \subseteq Types \cup {None}
      BY <1>1, KrateTypes
    <2>2. krate.trait[i] \in present  BY <1>8, <1>13, <2>1
    <2>3. CASE krate.trait_typ_args[i] \ {None} \subseteq present
      BY <1>1, <1>2, <1>6, <2>2, <2>3 DEF FirstRules
    <2>4. CASE ~(krate.trait_typ_args[i] \ {None} \subseteq present)
      <3>1. krate.trait_typ_args[i] \cap (Introduced \ present) # {}  BY <1>8, <1>13, <2>1, <2>4
      <3>2. krate.trait_typ_args[i] \subseteq Awaits(i)  BY DEF Awaits
      <3>. QED  BY <1>6, <1>9, <3>1, <3>2
    <2>. QED  BY <2>3, <2>4
  <1>14. ASSUME NEW a \in AssocImpls \cap A, krate.assoc_decl[a] \in P,
                krate.assoc_self[a] \in P \cup {None}
         PROVE  a \in P
    <2>1. krate.assoc_decl[a] \in Decls /\ krate.assoc_self[a] \in Types \cup {None}
      BY <1>1, KrateTypes
    <2>2. krate.assoc_decl[a] \in present  BY <1>8, <1>14, <2>1
    <2>3. CASE krate.assoc_self[a] \in present \cup {None}
      BY <1>1, <1>2, <1>6, <2>2, <2>3 DEF FirstRules
    <2>4. CASE krate.assoc_self[a] \notin present \cup {None}
      <3>1. krate.assoc_self[a] \in Introduced \ present  BY <1>8, <1>14, <2>1, <2>4
      <3>2. krate.assoc_self[a] \in Awaits(a)  BY DEF Awaits
      <3>. QED  BY <1>6, <1>9, <3>1, <3>2
    <2>. QED  BY <2>3, <2>4
  <1>15. \A d \in Decls \cap P : krate.decl_trait[d] \in P  BY <1>1, <1>2, <1>8 DEF FirstRules
  <1>16. ASSUME NEW f \in CrateLemmas \cap A, NEW trig \in krate.triggers[f], trig \subseteq P
         PROVE  f \in P
    <2>0. f \in Funs  BY DEF CrateLemmas
    <2>1. trig \subseteq Funs \cup Types  BY <1>1, <2>0, KrateTypes
    <2>2. trig \cap Copies = {}
      <3>1. \A m \in krate.copies : \A h \in Funs : m.fun \notin UNION krate.triggers[h]
        BY <1>1, Zenon DEF Convertible
      <3>. QED  BY <2>0, <3>1 DEF Copies
    <2>3. trig \subseteq present \cup (Introduced \ present)  BY <1>8, <1>16, <2>1, <2>2
    <2>4. CASE trig \subseteq present  BY <1>1, <1>2, <1>6, <2>4 DEF FirstRules
    <2>5. CASE ~(trig \subseteq present)
      <3>1. trig \cap (Introduced \ present) # {}  BY <2>3, <2>5
      <3>2. trig \subseteq Awaits(f)  BY <2>0 DEF Awaits
      <3>. QED  BY <1>6, <1>9, <3>1, <3>2
    <2>. QED  BY <2>4, <2>5
  <1>17. \A g \in Groups \cap P : \A m \in krate.members[g] \cap A :
            m \notin CrateLemmas \/ krate.triggers[m] = {} => m \in P
    BY <1>1, <1>2, <1>6, <1>8 DEF FirstRules
  <1>18. CrateReveals' = CrateReveals  BY <1>1, ConvertedKrate DEF CrateReveals
  <1>19. CrateLemmas' = CrateLemmas
    <2>1. krate'.members = krate.members  BY <1>1, ConvertedKrate
    <2>. QED  BY <1>18, <2>1, SameMembers DEF CrateLemmas
  <1>20. /\ krate'.trait = krate.trait /\ krate'.trait_typ_args = krate.trait_typ_args
         /\ krate'.assoc_decl = krate.assoc_decl /\ krate'.assoc_self = krate.assoc_self
         /\ krate'.decl_trait = krate.decl_trait /\ krate'.triggers = krate.triggers
         /\ krate'.members = krate.members /\ krate'.copies = krate.copies
         /\ krate'.own = krate.own /\ krate'.module_reveals = krate.module_reveals
         /\ krate'.other_reveals = krate.other_reveals
    BY <1>1, ConvertedKrate
  <1>21. FirstRules'
    <2>1. /\ \A x \in present' \ (Groups \cup Decls) : EverMentioned(x)' \cap all' \subseteq present'
          /\ \A m \in krate'.methods :
                /\ m.fun \in present' /\ m.method \in all' => m.method \in present'
                /\ m.method \in present' /\ m.self \in present' \cup {None} /\ m.fun \in all'
                      => m.fun \in present'
      BY <1>11, <1>12 DEF P, A
    <2>2. /\ \A i \in Impls \cap all' :
                krate'.trait[i] \in present' /\ krate'.trait_typ_args[i] \ {None} \subseteq present'
                   => i \in present'
          /\ \A a \in AssocImpls \cap all' :
                krate'.assoc_decl[a] \in present' /\ krate'.assoc_self[a] \in present' \cup {None}
                   => a \in present'
          /\ \A d \in Decls \cap present' : krate'.decl_trait[d] \in present'
      BY <1>13, <1>14, <1>15, <1>20 DEF P, A
    <2>3. /\ \A f \in CrateLemmas' \cap all' :
                (\E trig \in krate'.triggers[f] : trig \subseteq present') => f \in present'
          /\ \A g \in Groups \cap present' : \A m \in krate'.members[g] \cap all' :
                m \notin CrateLemmas' \/ krate'.triggers[m] = {} => m \in present'
      BY <1>16, <1>17, <1>19, <1>20 DEF P, A
    <2>. QED  BY <2>1, <2>2, <2>3 DEF FirstRules
  <1>22. krate.own \cup krate.module_reveals \cup krate.other_reveals
           \cup (Groups \cap CrateReveals) \subseteq P
    BY <1>2 DEF BeforeConversion, FirstComplete
  <1>23. Copies' = Copies  BY <1>20 DEF Copies
  <1>. QED
    BY <1>3, <1>4, <1>5, <1>10, <1>18, <1>20, <1>21, <1>22, <1>23 DEF FirstComplete, P, A
-----------------------------------------------------------------------------
(* The bucket's pruning of all there is, beside that of what is left.      *)

(* Lighter differs from the krate only in the members of its groups. *)
LEMMA LighterIs ==
    ASSUME WellFormedKrate(krate)
    PROVE  /\ Lighter.decl = krate.decl /\ Lighter.body = krate.body
           /\ Lighter.shown = krate.shown /\ Lighter.visible = krate.visible
           /\ Lighter.broadcast_use = krate.broadcast_use /\ Lighter.reveal = krate.reveal
           /\ Lighter.default_groups = krate.default_groups /\ Lighter.triggers = krate.triggers
           /\ Lighter.methods = krate.methods /\ Lighter.trait = krate.trait
           /\ Lighter.trait_typ_args = krate.trait_typ_args
           /\ Lighter.assoc_decl = krate.assoc_decl /\ Lighter.assoc_self = krate.assoc_self
           /\ Lighter.decl_trait = krate.decl_trait
           /\ Lighter.bucket_funs = krate.bucket_funs /\ Lighter.bucket_types = krate.bucket_types
           /\ Lighter.module_reveals = krate.module_reveals
           /\ \A g \in Groups : Lighter.members[g] = krate.members[g] \ Useless
  <1>2. PICK M : M = [g \in Groups |-> krate.members[g] \ Useless]  OBVIOUS
  <1>3. Lighter = [krate EXCEPT !.members = M]  BY <1>2 DEF Lighter
  <1>4. \A g \in Groups : Lighter.members[g] = krate.members[g] \ Useless
    BY <1>2, <1>3 DEF WellFormedKrate, KrateRecords
  <1>. QED  BY <1>3, <1>4 DEF WellFormedKrate, KrateRecords

(* The bucket is being pruned, or was, after a complete first pruning. *)
AfterFirst ==
    /\ WellFormedKrate(krate)
    /\ scope = "bucket"
    /\ FirstComplete
    /\ revealed = RevealedWithMembers

(* What AfterFirst says, without the rules. *)
LEMMA AfterFirstHas ==
    ASSUME AfterFirst
    PROVE  /\ WellFormedKrate(krate) /\ scope = "bucket" /\ revealed = RevealedWithMembers
           /\ present \subseteq all /\ all \subseteq Items /\ present \subseteq Items
           /\ Groups \cup Traits \cup Decls \cup Opaques \subseteq all
           /\ krate.own \cup krate.module_reveals \cup (Groups \cap CrateReveals) \subseteq present
           /\ krate.bucket_funs \cap all = krate.bucket_funs \cap present
           /\ krate.bucket_funs \cap present \subseteq (krate.own \cap Funs) \cup Copies
           /\ FirstRules
  <1>1. WellFormedKrate(krate) /\ FirstComplete  BY DEF AfterFirst
  <1>2. krate.bucket_funs \subseteq krate.own \cup Copies /\ krate.bucket_funs \subseteq Funs
    BY <1>1, OwnTypes, KrateTypes
  <1>3. krate.own \subseteq present /\ Copies \cap all \subseteq present /\ present \subseteq all
    BY <1>1 DEF FirstComplete
  <1>. QED  BY <1>1, <1>2, <1>3 DEF AfterFirst, FirstComplete

(* A bucket reveals no more than its crate, and its default groups are left. *)
LEMMA BucketRevealsLess ==
    ASSUME AfterFirst
    PROVE  /\ RevealedDirectly \subseteq CrateReveals
           /\ Merged!RevealedDirectly = RevealedDirectly
           /\ revealed \cap Funs \subseteq CrateLemmas
  <1> DEFINE Named(F) == UNION {krate.broadcast_use[f] \cup krate.reveal[f] : f \in F}
  <1>1. /\ WellFormedKrate(krate) /\ scope = "bucket" /\ krate.default_groups \subseteq Groups
        /\ Groups \subseteq all /\ revealed = RevealedWithMembers
    BY AfterFirstHas, OwnTypes
  <1>2. PICK F : F = krate.bucket_funs \cap present  OBVIOUS
  <1>3. RootFunctions = F /\ RootModulesReveal = krate.module_reveals
           /\ Merged!RootFunctions = F /\ Merged!RootModulesReveal = krate.module_reveals
    BY <1>1, <1>2, AfterFirstHas
       DEF RootFunctions, RootModulesReveal, Merged!RootFunctions, Merged!RootModulesReveal
  <1>4. CrateReveals = Named(krate.own \cap Funs) \cup krate.module_reveals
                         \cup krate.other_reveals \cup krate.default_groups
    BY DEF CrateReveals
  <1>5. Named(F) \subseteq Named(krate.own \cap Funs)
    <2>1. F \subseteq (krate.own \cap Funs) \cup Copies  BY <1>2, AfterFirstHas
    <2>2. \A f \in Copies : krate.broadcast_use[f] = {} /\ krate.reveal[f] = {}  BY <1>1, OwnTypes
    <2>. QED  BY <2>1, <2>2
  <1>6. /\ RevealedDirectly = Named(F) \cup krate.module_reveals \cup (present \cap krate.default_groups)
        /\ Merged!RevealedDirectly
              = Named(F) \cup krate.module_reveals \cup (all \cap krate.default_groups)
    BY <1>3 DEF RevealedDirectly, Merged!RevealedDirectly
  <1>. HIDE DEF Named
  <1>7. present \cap krate.default_groups = krate.default_groups
           /\ all \cap krate.default_groups = krate.default_groups
    <2>1. krate.default_groups \subseteq Groups \cap CrateReveals  BY <1>1, <1>4
    <2>2. Groups \cap CrateReveals \subseteq present  BY AfterFirstHas
    <2>. QED  BY <1>1, <2>1, <2>2
  <1>8. RevealedDirectly \subseteq CrateReveals /\ Merged!RevealedDirectly = RevealedDirectly
    BY <1>4, <1>5, <1>6, <1>7
  <1>9. VisibleGroups \subseteq Groups  BY DEF VisibleGroups
  <1>10. WithMembers(RevealedDirectly, VisibleGroups) \subseteq WithMembers(CrateReveals, Groups)
    BY <1>8, <1>9, WithMembersMore
  <1>. QED  BY <1>1, <1>8, <1>10 DEF RevealedWithMembers, CrateLemmas

(* What is revealed is the same, whether looked up in what is left or not. *)
LEMMA SameRevealed ==
    ASSUME AfterFirst
    PROVE  Merged!RevealedWithMembers = revealed
  <1>1. /\ WellFormedKrate(krate) /\ scope = "bucket" /\ revealed = RevealedWithMembers
        /\ present \subseteq all /\ Groups \subseteq all /\ FirstRules
    BY AfterFirstHas
  <1>2. PICK d : d = RevealedDirectly  OBVIOUS
  <1>3. Merged!RevealedDirectly = d /\ d \subseteq CrateReveals  BY <1>2, BucketRevealsLess
  <1>4. PICK T \in SUBSET Groups : T = Merged!VisibleGroups
    <2>1. Merged!VisibleGroups \in SUBSET Groups  BY DEF Merged!VisibleGroups
    <2>. QED  BY <2>1
  <1>5. VisibleGroups = T \cap present
    BY <1>1, <1>4 DEF Merged!VisibleGroups, VisibleGroups
  <1>6. d \cap Groups \subseteq present  BY <1>3, AfterFirstHas
  <1>7. ASSUME NEW g \in Groups \cap present PROVE krate.members[g] \cap Groups \subseteq present
    <2>1. \A m \in Groups : m \notin CrateLemmas  BY KrateAssumption DEF CrateLemmas
    <2>. QED  BY <1>1, <2>1 DEF FirstRules
  <1>8. PICK S : S = VisibleGroups  OBVIOUS
  <1>9. WithMembers(d, S) = WithMembers(d, T)  BY <1>5, <1>6, <1>7, <1>8, WithMembersSame
  <1>10. Merged!RevealedWithMembers = Merged!WithMembers(d, T)
    BY <1>3, <1>4 DEF Merged!RevealedWithMembers
  <1>11. Merged!WithMembers(d, T) = WithMembers(d, T)  BY SameWithMembers
  <1>12. RevealedWithMembers = WithMembers(d, S)  BY <1>2, <1>8 DEF RevealedWithMembers
  <1>. QED  BY <1>1, <1>9, <1>10, <1>11, <1>12

(* An item that is left mentions the same. *)
LEMMA SameMentioned ==
    ASSUME AfterFirst, NEW x \in present
    PROVE  Unpruned!Mentioned(x) = Mentioned(x)
  <1>1. WellFormedKrate(krate) /\ scope = "bucket" /\ x \in all  BY AfterFirstHas
  <1>2. Unpruned!HasBody(x) <=> HasBody(x)
    BY <1>1, LighterIs, SameRevealed DEF Unpruned!HasBody, HasBody
  <1>. QED  BY <1>1, <1>2, LighterIs DEF Unpruned!Mentioned, Mentioned

(* What exists in what is left are the left ones of those that exist, and  *)
(* what exists is there.                                                   *)
LEMMA SameExisting ==
    ASSUME AfterFirst, NEW S
    PROVE  /\ Existing(S) \subseteq Unpruned!Existing(S)
           /\ Existing(S) \subseteq S /\ Unpruned!Existing(S) \subseteq S
           /\ Unpruned!Existing(S) \cap present \subseteq Existing(S)
           /\ S \subseteq Items => Unpruned!Existing(S) \subseteq all
  <1>1. /\ WellFormedKrate(krate) /\ scope = "bucket" /\ present \subseteq all
        /\ Groups \cup Traits \cup Decls \cup Opaques \subseteq all
    BY AfterFirstHas
  <1>2. Unpruned!VisibleGroups \cap present = VisibleGroups
    BY <1>1, LighterIs DEF Unpruned!VisibleGroups, VisibleGroups
  <1>3. S \subseteq Items => Unpruned!Existing(S) \subseteq all
    BY <1>1 DEF Unpruned!Existing, Items
  <1>. QED  BY <1>1, <1>2, <1>3, LighterIs DEF Unpruned!Existing, Existing

(* The roots of the bucket are the same, and all are left. *)
LEMMA SameRoots ==
    ASSUME AfterFirst
    PROVE  /\ Unpruned!Roots = Roots
           /\ Roots \subseteq present
  <1>1. /\ WellFormedKrate(krate) /\ scope = "bucket" /\ present \subseteq all
        /\ krate.own \cup krate.module_reveals \subseteq present
    BY AfterFirstHas
  <1>2. /\ Unpruned!RootFunctions = krate.bucket_funs \cap present
        /\ Merged!RootFunctions = krate.bucket_funs \cap present
        /\ RootFunctions = krate.bucket_funs \cap present
        /\ Unpruned!RootModulesReveal = krate.module_reveals
        /\ Merged!RootModulesReveal = krate.module_reveals
        /\ RootModulesReveal = krate.module_reveals
    BY <1>1, AfterFirstHas, LighterIs
       DEF Unpruned!RootFunctions, Merged!RootFunctions, RootFunctions,
           Unpruned!RootModulesReveal, Merged!RootModulesReveal, RootModulesReveal
  <1>3. Unpruned!RevealedDirectly = RevealedDirectly
    <2>1. Unpruned!RevealedDirectly = Merged!RevealedDirectly
      BY <1>1, <1>2, LighterIs DEF Unpruned!RevealedDirectly, Merged!RevealedDirectly
    <2>. QED  BY <2>1, BucketRevealsLess
  <1>4. RevealedDirectly \cap Groups \subseteq present  BY AfterFirstHas, BucketRevealsLess
  <1>5. Unpruned!VisibleGroups \cap present = VisibleGroups /\ Unpruned!VisibleGroups \subseteq Groups
           /\ VisibleGroups \subseteq present
    BY <1>1, LighterIs DEF Unpruned!VisibleGroups, VisibleGroups
  <1>6. Unpruned!VisibleGroups \cap RevealedDirectly = VisibleGroups \cap RevealedDirectly
    BY <1>4, <1>5
  <1>7. Unpruned!Roots = Roots
    BY <1>1, <1>2, <1>3, <1>6, LighterIs DEF Unpruned!Roots, Roots
  <1>8. krate.bucket_types \subseteq present  BY <1>1, OwnTypes
  <1>9. Roots \subseteq present  BY <1>1, <1>2, <1>5, <1>8 DEF Roots
  <1>. QED  BY <1>7, <1>9

(* What is left is closed for the bucket, so the bucket's pruning stays in it. *)
LEMMA LeftIsClosed ==
    ASSUME AfterFirst
    PROVE  Closed(present)
  <1>1. WellFormedKrate(krate) /\ present \subseteq Items /\ FirstRules  BY AfterFirstHas
  <1>2. MentionsKept(present, present)
    <2>1. SUFFICES ASSUME NEW x \in present \ (Groups \cup Decls)
                   PROVE  Existing(Mentioned(x)) \subseteq present
      BY DEF MentionsKept
    <2>2. PICK M : M = Mentioned(x)  OBVIOUS
    <2>3. M \subseteq EverMentioned(x) /\ EverMentioned(x) \subseteq Items
      BY <1>1, <2>2, MentionedInCrate, EverMentionedTypes
    <2>4. EverMentioned(x) \cap all \subseteq present  BY <1>1 DEF FirstRules
    <2>5. Existing(M) \subseteq M /\ Existing(M) \subseteq all  BY <2>3, SameExisting
    <2>. QED  BY <2>2, <2>3, <2>4, <2>5
  <1>3. MethodsKept(present, present)
    <2>1. \A f \in Funs : Existing({f}) \subseteq present  BY ExistingFun
    <2>. QED  BY <1>1, <2>1, KrateTypes DEF MethodsKept
  <1>4. TraitImplsKept(present, present)  BY DEF TraitImplsKept
  <1>5. AssocTypesKept(present, present)  BY <1>1 DEF AssocTypesKept, FirstRules
  <1>6. LemmasKept(present, present)
    BY DEF LemmasKept, RevealedBroadcasts
  <1>7. MembersKept(present, present)
    <2>1. SUFFICES ASSUME NEW g \in Groups \cap present, NEW m \in Existing(krate.members[g])
                   PROVE  m \in present
      BY DEF MembersKept
    <2>2. m \in Funs \cup Groups  BY <1>1, KrateTypes, ExistingPart
    <2>. QED  BY <2>1, <2>2 DEF Existing, VisibleGroups
  <1>. QED  BY <1>2, <1>3, <1>4, <1>5, <1>6, <1>7 DEF Closed, Needed

(* NoneTooMuch, with what is left as the closed set. *)
LEMMA ReachedIsLeft ==
    ASSUME AfterFirst, PruneInv, pruning = "yes"
    PROVE  reached \subseteq present
  <1>1. present \in SUBSET Items  BY AfterFirstHas
  <1>. QED  BY <1>1, SameRoots, LeftIsClosed DEF PruneInv, NoneTooMuch

(* A member of a group that is not left is a lemma that is of no use. *)
LEMMA NotLeftIsUseless ==
    ASSUME AfterFirst, reached \subseteq present,
           NEW g \in Groups \cap present, NEW m \in krate.members[g] \cap all, m \notin present
    PROVE  m \in Useless
  <1>1. FirstRules  BY AfterFirstHas
  <1>2. m \in CrateLemmas /\ krate.triggers[m] # {}  BY <1>1 DEF FirstRules
  <1>3. \A trig \in krate.triggers[m] : ~(trig \subseteq present)
    BY <1>1, <1>2 DEF FirstRules
  <1>4. m \in Funs \ reached  BY <1>2 DEF CrateLemmas
  <1>. QED  BY <1>2, <1>3, <1>4 DEF Useless

(* What is closed in what is left is closed in all there is. *)
LEMMA ClosedInAll ==
    ASSUME AfterFirst, reached \subseteq present, Closed(reached)
    PROVE  Unpruned!Closed(reached)
  <1>1. /\ WellFormedKrate(krate) /\ scope = "bucket" /\ FirstRules
        /\ present \subseteq all /\ present \subseteq Items
    BY AfterFirstHas
  <1>2. Needed(reached, reached)  BY DEF Closed
  <1>3. Unpruned!MentionsKept(reached, reached)
    <2>1. SUFFICES ASSUME NEW x \in reached \ (Groups \cup Decls)
                   PROVE  Unpruned!Existing(Unpruned!Mentioned(x)) \subseteq reached
      BY DEF Unpruned!MentionsKept
    <2>2. x \in present \ (Groups \cup Decls)  OBVIOUS
    <2>3. PICK M : M = Mentioned(x)  OBVIOUS
    <2>4. Unpruned!Mentioned(x) = M  BY <2>2, <2>3, SameMentioned
    <2>5. M \subseteq EverMentioned(x) /\ EverMentioned(x) \subseteq Items
             /\ EverMentioned(x) \cap all \subseteq present
      BY <1>1, <2>2, <2>3, MentionedInCrate, EverMentionedTypes DEF FirstRules
    <2>6. Unpruned!Existing(M) \subseteq M /\ Unpruned!Existing(M) \subseteq all
      BY <2>5, SameExisting
    <2>7. Unpruned!Existing(M) \subseteq Existing(M)  BY <2>5, <2>6, SameExisting
    <2>8. Existing(M) \subseteq reached  BY <1>2, <2>3 DEF Needed, MentionsKept
    <2>. QED  BY <2>4, <2>7, <2>8
  <1>4. Unpruned!MethodsKept(reached, reached)
    <2>1. SUFFICES ASSUME NEW m \in krate.methods
                   PROVE  /\ m.fun \in reached => Unpruned!Existing({m.method}) \subseteq reached
                          /\ m.method \in reached /\ m.self \in reached \cup {None}
                                => Unpruned!Existing({m.fun}) \subseteq reached
      BY <1>1, LighterIs DEF Unpruned!MethodsKept
    <2>2. PICK y, z : y = m.fun /\ z = m.method  OBVIOUS
    <2>3. /\ y \in present /\ z \in all => z \in present
          /\ z \in present /\ m.self \in present \cup {None} /\ y \in all => y \in present
      BY <1>1, <2>2 DEF FirstRules
    <2>4. /\ y \in reached => Existing({z}) \subseteq reached
          /\ z \in reached /\ m.self \in reached \cup {None} => Existing({y}) \subseteq reached
      BY <1>2, <2>2 DEF Needed, MethodsKept
    <2>5. y \in Items /\ z \in Items  BY <1>1, <2>2, KrateTypes DEF Items
    <2>6. ASSUME NEW v \in Items, v \in all => v \in present
          PROVE  Unpruned!Existing({v}) \subseteq Existing({v})
      <3>1. PICK V : V = {v}  OBVIOUS
      <3>2. Unpruned!Existing(V) \subseteq V /\ Unpruned!Existing(V) \subseteq all
               /\ Unpruned!Existing(V) \cap present \subseteq Existing(V)
        BY <3>1, SameExisting
      <3>3. Unpruned!Existing(V) \subseteq Existing(V)  BY <2>6, <3>1, <3>2
      <3>. QED  BY <3>1, <3>3
    <2>7. y \in reached => Unpruned!Existing({z}) \subseteq reached  BY <2>3, <2>4, <2>5, <2>6
    <2>8. z \in reached /\ m.self \in reached \cup {None} => Unpruned!Existing({y}) \subseteq reached
      BY <2>3, <2>4, <2>5, <2>6
    <2>. QED  BY <2>2, <2>7, <2>8
  <1>5. Unpruned!TraitImplsKept(reached, reached)
    <2>1. SUFFICES ASSUME NEW i \in Impls \cap all, krate.trait[i] \in reached,
                          krate.trait_typ_args[i] \ {None} \subseteq reached
                   PROVE  i \in reached
      BY <1>1, LighterIs DEF Unpruned!TraitImplsKept
    <2>2. krate.trait[i] \in present /\ krate.trait_typ_args[i] \ {None} \subseteq present  BY <2>1
    <2>3. i \in present  BY <1>1, <2>2 DEF FirstRules
    <2>. QED  BY <1>2, <2>1, <2>3 DEF Needed, TraitImplsKept
  <1>6. Unpruned!AssocTypesKept(reached, reached)
    <2>1. ASSUME NEW a \in AssocImpls \cap all, krate.assoc_decl[a] \in reached,
                 krate.assoc_self[a] \in reached \cup {None}
          PROVE  a \in reached
      <3>1. krate.assoc_decl[a] \in present /\ krate.assoc_self[a] \in present \cup {None}  BY <2>1
      <3>2. a \in present  BY <1>1, <3>1 DEF FirstRules
      <3>. QED  BY <1>2, <2>1, <3>2 DEF Needed, AssocTypesKept
    <2>2. \A d \in Decls \cap reached : krate.decl_trait[d] \in reached
      BY <1>2 DEF Needed, AssocTypesKept
    <2>. QED  BY <1>1, <2>1, <2>2, LighterIs DEF Unpruned!AssocTypesKept
  <1>7. Unpruned!LemmasKept(reached, reached)
    <2>0. Unpruned!RevealedBroadcasts = revealed \cap all \cap Funs
      BY SameRevealed DEF Unpruned!RevealedBroadcasts
    <2>1. SUFFICES ASSUME NEW f \in revealed \cap all \cap Funs, NEW trig \in krate.triggers[f],
                          trig \subseteq reached
                   PROVE  f \in reached
      BY <1>1, <2>0, LighterIs DEF Unpruned!LemmasKept
    <2>2. f \in CrateLemmas /\ trig \subseteq present  BY <2>1, BucketRevealsLess
    <2>3. f \in present  BY <1>1, <2>1, <2>2 DEF FirstRules
    <2>4. f \in RevealedBroadcasts  BY <2>1, <2>3 DEF RevealedBroadcasts
    <2>. QED  BY <1>2, <2>1, <2>4 DEF Needed, LemmasKept
  <1>8. Unpruned!MembersKept(reached, reached)
    <2>1. SUFFICES ASSUME NEW g \in Groups \cap reached, NEW m \in Unpruned!Existing(Lighter.members[g]),
                          m \notin Unpruned!RevealedBroadcasts \/ Lighter.triggers[m] = {}
                   PROVE  m \in reached
      BY DEF Unpruned!MembersKept
    <2>2. m \in krate.members[g] \ Useless  BY <1>1, LighterIs, SameExisting
    <2>3. m \in all
      <3>1. Lighter.members[g] \subseteq Items  BY <1>1, LighterIs, KrateTypes DEF Items
      <3>. QED  BY <2>1, <3>1, SameExisting
    <2>4. m \in present  BY <2>2, <2>3, NotLeftIsUseless
    <2>5. m \in Existing(krate.members[g])
      <3>1. m \in Existing(Lighter.members[g])  BY <2>1, <2>4, SameExisting
      <3>. QED  BY <2>2, <3>1 DEF Existing
    <2>6. m \notin RevealedBroadcasts \/ krate.triggers[m] = {}
      <3>1. RevealedBroadcasts \subseteq Unpruned!RevealedBroadcasts
        BY <1>1, SameRevealed DEF RevealedBroadcasts, Unpruned!RevealedBroadcasts
      <3>. QED  BY <1>1, <2>1, <3>1, LighterIs
    <2>. QED  BY <1>2, <2>5, <2>6 DEF Needed, MembersKept
  <1>. QED  BY <1>3, <1>4, <1>5, <1>6, <1>7, <1>8 DEF Unpruned!Closed, Unpruned!Needed

(* And what is closed in all there is, and has been reached, in what is left. *)
LEMMA ClosedInLeft ==
    ASSUME AfterFirst, reached \subseteq present, Closed(reached),
           NEW X \in SUBSET reached, Unpruned!Closed(X)
    PROVE  Closed(X)
  <1>1. /\ WellFormedKrate(krate) /\ scope = "bucket" /\ FirstRules
        /\ present \subseteq all /\ present \subseteq Items
    BY AfterFirstHas
  <1>2. Unpruned!Needed(X, X)  BY DEF Unpruned!Closed
  <1>3. \A S : Existing(S) \subseteq Unpruned!Existing(S)  BY SameExisting
  <1>4. MentionsKept(X, X)
    <2>1. SUFFICES ASSUME NEW x \in X \ (Groups \cup Decls)
                   PROVE  Existing(Mentioned(x)) \subseteq X
      BY DEF MentionsKept
    <2>2. PICK M : M = Mentioned(x)  OBVIOUS
    <2>3. Unpruned!Mentioned(x) = M  BY <2>2, SameMentioned
    <2>4. Unpruned!Existing(M) \subseteq X  BY <1>2, <2>3 DEF Unpruned!Needed, Unpruned!MentionsKept
    <2>. QED  BY <1>3, <2>2, <2>4
  <1>5. MethodsKept(X, X)
    <2>1. SUFFICES ASSUME NEW m \in krate.methods
                   PROVE  /\ m.fun \in X => Existing({m.method}) \subseteq X
                          /\ m.method \in X /\ m.self \in X \cup {None}
                                => Existing({m.fun}) \subseteq X
      BY DEF MethodsKept
    <2>2. /\ m.fun \in X => Unpruned!Existing({m.method}) \subseteq X
          /\ m.method \in X /\ m.self \in X \cup {None} => Unpruned!Existing({m.fun}) \subseteq X
      BY <1>1, <1>2, LighterIs DEF Unpruned!Needed, Unpruned!MethodsKept
    <2>3. Existing({m.method}) \subseteq Unpruned!Existing({m.method})
             /\ Existing({m.fun}) \subseteq Unpruned!Existing({m.fun})
      BY SameExisting
    <2>. QED  BY <2>2, <2>3
  <1>6. TraitImplsKept(X, X)
    <2>1. SUFFICES ASSUME NEW i \in Impls \cap present, krate.trait[i] \in X,
                          krate.trait_typ_args[i] \ {None} \subseteq X
                   PROVE  i \in X
      BY DEF TraitImplsKept
    <2>2. i \in Impls \cap all  BY <1>1
    <2>. QED  BY <1>1, <1>2, <2>1, <2>2, LighterIs DEF Unpruned!Needed, Unpruned!TraitImplsKept
  <1>7. AssocTypesKept(X, X)
    <2>1. AssocImpls \cap present \subseteq AssocImpls \cap all  BY <1>1
    <2>. QED  BY <1>1, <1>2, <2>1, LighterIs DEF Unpruned!Needed, Unpruned!AssocTypesKept, AssocTypesKept
  <1>8. RevealedBroadcasts \subseteq Unpruned!RevealedBroadcasts
           /\ Unpruned!RevealedBroadcasts \cap present \subseteq RevealedBroadcasts
    BY <1>1, SameRevealed DEF RevealedBroadcasts, Unpruned!RevealedBroadcasts
  <1>9. LemmasKept(X, X)
    BY <1>1, <1>2, <1>8, LighterIs DEF Unpruned!Needed, Unpruned!LemmasKept, LemmasKept
  <1>10. MembersKept(X, X)
    <2>1. SUFFICES ASSUME NEW g \in Groups \cap X, NEW m \in Existing(krate.members[g]),
                          m \notin RevealedBroadcasts \/ krate.triggers[m] = {}
                   PROVE  m \in X
      BY DEF MembersKept
    <2>2. m \in present /\ m \in krate.members[g]
      BY <1>1, <2>1, KrateTypes DEF Existing, VisibleGroups
    <2>3. m \in reached  BY <2>1 DEF Closed, Needed, MembersKept
    <2>4. m \in Lighter.members[g]
      <3>1. m \notin Useless  BY <2>3 DEF Useless
      <3>. QED  BY <1>1, <2>2, <3>1, LighterIs
    <2>5. m \in Unpruned!Existing(Lighter.members[g])
      <3>1. m \in Unpruned!Existing(krate.members[g])  BY <1>3
      <3>. QED  BY <2>4, <3>1 DEF Unpruned!Existing
    <2>6. m \notin Unpruned!RevealedBroadcasts \/ Lighter.triggers[m] = {}
      BY <1>1, <1>8, <2>1, <2>2, LighterIs
    <2>. QED  BY <1>2, <2>5, <2>6 DEF Unpruned!Needed, Unpruned!MembersKept
  <1>. QED  BY <1>4, <1>5, <1>6, <1>7, <1>9, <1>10 DEF Closed, Needed

(* When the bucket's traversal ends, it has kept what a pruning of all     *)
(* there is would.                                                         *)
LEMMA KeptAsUnpruned ==
    ASSUME AfterFirst, PruneInv, pruning = "yes", worklist = {}
    PROVE  Unpruned!ExactlyNeeded(reached)
  <1>1. reached \subseteq present  BY ReachedIsLeft
  <1>2. Processed = reached  BY DEF Processed
  <1>3. Roots \subseteq reached /\ Closed(reached)  BY <1>2 DEF PruneInv, NoneMissing, Closed
  <1>4. Unpruned!Roots = Roots  BY SameRoots
  <1>5. ASSUME NEW S \in SUBSET (reached \ Roots), Unpruned!Closed(Roots \cup S)
        PROVE  Roots \cup S = reached
    <2>1. PICK X \in SUBSET reached : X = Roots \cup S  BY <1>3
    <2>2. Closed(X)  BY <1>1, <1>3, <1>5, <2>1, ClosedInLeft
    <2>3. X \in SUBSET Items /\ Roots \subseteq X  BY <2>1 DEF PruneInv, TypesOK
    <2>4. reached \subseteq X  BY <2>2, <2>3 DEF PruneInv, NoneTooMuch
    <2>. QED  BY <2>1, <2>4
  <1>6. Unpruned!Closed(reached)  BY <1>1, <1>3, ClosedInAll
  <1>. QED  BY <1>3, <1>4, <1>5, <1>6 DEF Unpruned!ExactlyNeeded

-----------------------------------------------------------------------------
(* Nothing of this depends on what is present or left to do. *)
LEMMA FrozenReveals ==
    ASSUME UNCHANGED krate
    PROVE  /\ \A d, S : Merged!WithMembers(d, S)' = Merged!WithMembers(d, S)
           /\ \A d, S : WithMembers(d, S)' = WithMembers(d, S)
  <1>1. \A d, S : Merged!WithMembers(d, S)' = Merged!WithMembers(d, S)
    BY DEF Merged!WithMembers
  <1>2. \A d, S : WithMembers(d, S)' = WithMembers(d, S)
    BY DEF WithMembers
  <1>. QED  BY <1>1, <1>2

(* What is revealed depends on the krate, the scope and what is present. *)
LEMMA FrozenRevealed ==
    ASSUME UNCHANGED <<krate, scope, present>>
    PROVE  RevealedWithMembers' = RevealedWithMembers
  <1>1. VisibleGroups' = VisibleGroups  BY DEF VisibleGroups
  <1>2. RootFunctions' = RootFunctions  BY DEF RootFunctions
  <1>3. RootModulesReveal' = RootModulesReveal  BY DEF RootModulesReveal
  <1>4. RevealedDirectly' = RevealedDirectly  BY <1>2, <1>3 DEF RevealedDirectly
  <1>. QED  BY <1>1, <1>4, FrozenReveals DEF RevealedWithMembers

(* So the first pruning stays complete while what is left stays. *)
LEMMA FirstStays ==
    ASSUME FirstComplete, UNCHANGED <<krate, all, present>>
    PROVE  FirstComplete'
  <1>1. CrateReveals' = CrateReveals  BY DEF CrateReveals
  <1>2. CrateLemmas' = CrateLemmas  BY <1>1, FrozenReveals DEF CrateLemmas
  <1>3. \A x : EverMentioned(x)' = EverMentioned(x)  BY DEF EverMentioned, MentionedBy
  <1>4. Copies' = Copies  BY DEF Copies
  <1>5. FirstRules'  BY <1>2, <1>3 DEF FirstComplete, FirstRules
  <1>. QED  BY <1>1, <1>4, <1>5 DEF FirstComplete

(* What Unpruned says of the reached depends on no more than these four. *)
LEMMA FrozenUnpruned ==
    ASSUME UNCHANGED <<krate, all, scope, reached>>
    PROVE  Unpruned!ExactlyNeeded(reached)' <=> Unpruned!ExactlyNeeded(reached)
  <1>1. Useless' = Useless  BY DEF Useless
  <1>2. Lighter' = Lighter  BY <1>1 DEF Lighter
  <1>3. Merged!VisibleGroups' = Merged!VisibleGroups /\ Unpruned!VisibleGroups' = Unpruned!VisibleGroups
    BY <1>2 DEF Merged!VisibleGroups, Unpruned!VisibleGroups
  <1>4. /\ Merged!RootModulesReveal' = Merged!RootModulesReveal
        /\ Unpruned!RootModulesReveal' = Unpruned!RootModulesReveal
        /\ Merged!RootFunctions' = Merged!RootFunctions
        /\ Unpruned!RootFunctions' = Unpruned!RootFunctions
    BY <1>2 DEF Merged!RootModulesReveal, Unpruned!RootModulesReveal, Merged!RootFunctions,
       Unpruned!RootFunctions
  <1>5. Merged!RevealedDirectly' = Merged!RevealedDirectly  BY <1>4 DEF Merged!RevealedDirectly
  <1>6. Unpruned!RevealedDirectly' = Unpruned!RevealedDirectly  BY <1>2, <1>4 DEF Unpruned!RevealedDirectly
  <1>7. Merged!RevealedWithMembers' = Merged!RevealedWithMembers
    BY <1>3, <1>5, FrozenReveals DEF Merged!RevealedWithMembers
  <1>8. Unpruned!Roots' = Unpruned!Roots  BY <1>2, <1>3, <1>4, <1>6 DEF Unpruned!Roots
  <1>9. Unpruned!RevealedBroadcasts' = Unpruned!RevealedBroadcasts  BY <1>7 DEF Unpruned!RevealedBroadcasts
  <1>10. \A S : Unpruned!Existing(S)' = Unpruned!Existing(S)  BY <1>2, <1>3 DEF Unpruned!Existing
  <1>11. \A x : Unpruned!HasBody(x)' = Unpruned!HasBody(x)  BY <1>2, <1>7 DEF Unpruned!HasBody
  <1>12. \A x : Unpruned!Mentioned(x)' = Unpruned!Mentioned(x)  BY <1>2, <1>11 DEF Unpruned!Mentioned
  <1>13. ASSUME NEW P, NEW R PROVE Unpruned!Needed(P, R)' <=> Unpruned!Needed(P, R)
    <2>1. Unpruned!MentionsKept(P, R)' <=> Unpruned!MentionsKept(P, R)  BY <1>10, <1>12 DEF Unpruned!MentionsKept
    <2>2. Unpruned!MethodsKept(P, R)' <=> Unpruned!MethodsKept(P, R)  BY <1>2, <1>10 DEF Unpruned!MethodsKept
    <2>3. Unpruned!TraitImplsKept(P, R)' <=> Unpruned!TraitImplsKept(P, R)  BY <1>2 DEF Unpruned!TraitImplsKept
    <2>4. Unpruned!AssocTypesKept(P, R)' <=> Unpruned!AssocTypesKept(P, R)  BY <1>2 DEF Unpruned!AssocTypesKept
    <2>5. Unpruned!LemmasKept(P, R)' <=> Unpruned!LemmasKept(P, R)  BY <1>2, <1>9 DEF Unpruned!LemmasKept
    <2>6. Unpruned!MembersKept(P, R)' <=> Unpruned!MembersKept(P, R)
      BY <1>2, <1>9, <1>10 DEF Unpruned!MembersKept
    <2>. QED  BY <2>1, <2>2, <2>3, <2>4, <2>5, <2>6 DEF Unpruned!Needed
  <1>14. \A S : Unpruned!Closed(S)' <=> Unpruned!Closed(S)  BY <1>13 DEF Unpruned!Closed
  <1>15. PICK r : r = reached  OBVIOUS
  <1>16. Unpruned!ExactlyNeeded(r)' <=> Unpruned!ExactlyNeeded(r)
    BY <1>8, <1>14 DEF Unpruned!ExactlyNeeded
  <1>17. reached' = r  BY <1>15
  <1>18. Unpruned!ExactlyNeeded(reached)' <=> Unpruned!ExactlyNeeded(r)'
    <2>1. Unpruned!Closed(reached)' <=> Unpruned!Closed(r)'
      BY <1>17 DEF Unpruned!Closed, Unpruned!Needed, Unpruned!MentionsKept, Unpruned!MethodsKept,
         Unpruned!TraitImplsKept, Unpruned!AssocTypesKept, Unpruned!LemmasKept, Unpruned!MembersKept
    <2>. QED  BY <1>17, <2>1 DEF Unpruned!ExactlyNeeded
  <1>. QED  BY <1>15, <1>16, <1>18

-----------------------------------------------------------------------------
LEMMA TwiceInit == ASSUME PruneInit PROVE TwiceInv
  BY DEF PruneInit, TwiceInv

LEMMA TraverseTwice ==
    ASSUME TwiceInv, pruning = "yes",
           UNCHANGED <<krate, all, scope, pruning, present, revealed, only>>
    PROVE  TwiceInv'
  <1>1. scope = "bucket" => FirstComplete'  BY FirstStays DEF TwiceInv
  <1>. QED  BY <1>1, FrozenRevealed DEF TwiceInv

LEMMA FinishTwice == ASSUME TwiceInv, PruneInv, Finish PROVE TwiceInv'
  <1>1. WellFormedKrate(krate) /\ pruning = "yes" /\ worklist = {} /\ pruning' = "no"
           /\ scope \in {"crate", "bucket"}
           /\ UNCHANGED <<krate, all, scope, revealed, reached, worklist, fully>>
    BY DEF Finish, PruneInv, TypesOK
  <1>2. scope = "crate" => FirstComplete'  BY FinishFirst
  <1>3. ASSUME scope = "bucket" PROVE Unpruned!ExactlyNeeded(reached)'
    <2>1. AfterFirst  BY <1>1, <1>3 DEF TwiceInv, AfterFirst
    <2>2. Unpruned!ExactlyNeeded(reached)  BY <1>1, <2>1, KeptAsUnpruned
    <2>. QED  BY <1>1, <2>2, FrozenUnpruned
  <1>. QED  BY <1>1, <1>2, <1>3 DEF TwiceInv

LEMMA ConvertTwice == ASSUME TwiceInv, PruneInv, Convert PROVE TwiceInv'
  <1>1. pruning = "no" /\ scope = "crate" /\ pruning' = "converted" /\ scope' = "crate"
    BY DEF Convert
  <1>2. BeforeConversion  BY <1>1 DEF BeforeConversion, TwiceInv, PruneInv, TypesOK
  <1>3. FirstComplete'  BY <1>2, ConvertFirst
  <1>. QED  BY <1>1, <1>3 DEF TwiceInv

LEMMA PruneForBucketTwice == ASSUME TwiceInv, PruneForBucket PROVE TwiceInv'
  <1>1. FirstComplete'  BY FirstStays DEF PruneForBucket, TwiceInv
  <1>. QED  BY <1>1 DEF PruneForBucket, TwiceInv

LEMMA StutterTwice == ASSUME TwiceInv, UNCHANGED pruneVars PROVE TwiceInv'
  <1>1. UNCHANGED <<krate, all, scope, pruning, present, revealed, reached, worklist, fully, only>>
    BY DEF pruneVars
  <1>2. FirstComplete => FirstComplete'  BY <1>1, FirstStays
  <1>3. Unpruned!ExactlyNeeded(reached)' <=> Unpruned!ExactlyNeeded(reached)  BY <1>1, FrozenUnpruned
  <1>. QED  BY <1>1, <1>2, <1>3, FrozenRevealed DEF TwiceInv

LEMMA TraverseKeepsKrate ==
    ASSUME Traverse
    PROVE  pruning = "yes" /\ UNCHANGED <<krate, all, scope, pruning, present, revealed, only>>
  BY DEF Traverse, PopFunction, PopGroup, PopType, PopTrait, PopDecl, PopOther, Popped, Continue

(* TwiceInv holds in every state of the two prunings: what the crate's has *)
(* left (prune_krate_for_module_or_krate) is closed under all its rules,   *)
(* and so is what the conversions make of it (inherit_default_bodies,      *)
(* simplify_krate), for the mentions they leave and the items they add.    *)
THEOREM TwiceInvariant == PruneSpec => []TwiceInv
  <1>1. PruneInit => TwiceInv  BY TwiceInit
  <1>2. PruneInv /\ TwiceInv /\ [PruneNext]_pruneVars => TwiceInv'
    BY TraverseTwice, TraverseKeepsKrate, FinishTwice, ConvertTwice, PruneForBucketTwice,
       StutterTwice DEF PruneNext
  <1>. QED  BY <1>1, <1>2, PruneInvariant, PTL DEF PruneSpec

(* What verify_bucket_outer prunes away from a krate that was pruned for   *)
(* the crate, and then converted, is what it would have pruned away from   *)
(* the crates as they were merged, and converted: for every crate, every   *)
(* bucket, every order of the two traversals and whatever the conversions  *)
(* add and mention.  Not expected back are the lemmas that no trigger asks *)
(* for, and what waits for a type that only the conversions mention.       *)
THEOREM PruningTwiceLosesNothing == PruneSpec => []BucketLosesNothing
  <1>1. PruneInv /\ TwiceInv => BucketLosesNothing
    <2>1. SUFFICES ASSUME PruneInv, TwiceInv, scope = "bucket", worklist = {}
                   PROVE  Unpruned!ExactlyNeeded(reached)
      BY DEF BucketLosesNothing
    <2>2. CASE pruning = "yes"
      <3>1. AfterFirst  BY <2>1, <2>2 DEF TwiceInv, AfterFirst, PruneInv, TypesOK
      <3>. QED  BY <2>1, <2>2, <3>1, KeptAsUnpruned
    <2>3. CASE pruning = "no"  BY <2>1, <2>3 DEF TwiceInv
    <2>. QED  BY <2>1, <2>2, <2>3 DEF PruneInv, TypesOK
  <1>. QED  BY <1>1, PruneInvariant, TwiceInvariant, PTL

-----------------------------------------------------------------------------
(* Strongly connected components: paths and sequences.                     *)

LEMMA LeadsSelf ==
    ASSUME NEW es, NEW v PROVE Leads(es, v, v)
  BY DEF Leads

LEMMA LeadsOn ==
    ASSUME NEW es, NEW u, NEW v, NEW w, Leads(es, u, v), Leads(es, v, w) PROVE Leads(es, u, w)
  BY DEF Leads

LEMMA LeadsEdge ==
    ASSUME NEW es, NEW v \in DOMAIN es, NEW w \in ToSet(es[v]) PROVE Leads(es, v, w)
  BY DEF Leads

LEMMA LastIs ==
    ASSUME NEW S, NEW s \in Seq(S), s # <<>>
    PROVE  /\ Len(s) \in Nat \ {0} /\ Len(s) \in DOMAIN s
           /\ Last(s) = s[Len(s)] /\ Last(s) \in ToSet(s) /\ Last(s) \in S
  BY DEF Last, ToSet

LEMMA FrontIs ==
    ASSUME NEW S, NEW s \in Seq(S), s # <<>>
    PROVE  /\ Front(s) \in Seq(S) /\ Len(Front(s)) = Len(s) - 1
           /\ DOMAIN Front(s) = 1 .. Len(s) - 1
           /\ \A i \in 1 .. Len(s) - 1 : Front(s)[i] = s[i]
  <1>1. PICK n : n = Len(s) - 1  OBVIOUS
  <1>2. n \in Nat /\ n \in Int /\ 1 \in Int /\ n = Len(s) - 1  BY <1>1
  <1>3. \A i \in 1 .. n : s[i] \in S  BY <1>2
  <1>4. /\ SubSeq(s, 1, n) \in Seq(S)
        /\ Len(SubSeq(s, 1, n)) = IF 1 <= n THEN n - 1 + 1 ELSE 0
        /\ \A i \in 1 .. n - 1 + 1 : SubSeq(s, 1, n)[i] = s[1 + i - 1]
    BY <1>2, <1>3, SubSeqProperties
  <1>5. Front(s) = SubSeq(s, 1, n)  BY <1>1 DEF Front
  <1>6. Len(Front(s)) = n /\ Front(s) \in Seq(S)  BY <1>2, <1>4, <1>5
  <1>7. ASSUME NEW i \in 1 .. n PROVE Front(s)[i] = s[i]
    <2>1. i \in 1 .. n - 1 + 1 /\ 1 + i - 1 = i  BY <1>2
    <2>. QED  BY <1>4, <1>5, <2>1
  <1>. QED  BY <1>2, <1>6, <1>7

LEMMA AppendIs ==
    ASSUME NEW S, NEW s \in Seq(S), NEW x \in S
    PROVE  /\ Append(s, x) \in Seq(S) /\ Len(Append(s, x)) = Len(s) + 1
           /\ DOMAIN Append(s, x) = 1 .. Len(s) + 1
           /\ \A i \in 1 .. Len(s) : Append(s, x)[i] = s[i]
           /\ Append(s, x)[Len(s) + 1] = x
           /\ ToSet(Append(s, x)) = ToSet(s) \cup {x}
  <1>1. /\ Append(s, x) \in Seq(S) /\ Len(Append(s, x)) = Len(s) + 1
        /\ DOMAIN Append(s, x) = 1 .. Len(s) + 1
        /\ \A i \in 1 .. Len(s) : Append(s, x)[i] = s[i]
        /\ Append(s, x)[Len(s) + 1] = x
    OBVIOUS
  <1>2. ToSet(Append(s, x)) = ToSet(s) \cup {x}
    BY <1>1 DEF ToSet
  <1>. QED  BY <1>1, <1>2

-----------------------------------------------------------------------------
(* A call of strongconnect begins.                                         *)

LEMMA SccSizes ==
    ASSUME SccTypes
    PROVE  /\ Len(edges) \in Nat /\ Nodes = 1 .. Len(edges)
           /\ \A v \in Nodes : edges[v] \in Seq(Nodes) /\ Len(edges[v]) \in Nat
                                /\ DOMAIN edges[v] = 1 .. Len(edges[v])
           /\ \A v \in Nodes : \A i \in DOMAIN edges[v] : edges[v][i] \in Nodes
           /\ Len(active) \in Nat /\ DOMAIN active = 1 .. Len(active)
           /\ \A i \in DOMAIN active : active[i] \in Nodes /\ active[i] \in Calls
           /\ Len(stack) \in Nat /\ DOMAIN stack = 1 .. Len(stack)
           /\ \A i \in DOMAIN stack : stack[i] \in Nodes
           /\ IsFiniteSet(Nodes) /\ Cardinality(Nodes) = Len(edges)
           /\ IsFiniteSet(Seen) /\ Seen \subseteq Nodes /\ counter \in Nat
  <1>1. Len(edges) \in Nat /\ Nodes = 1 .. Len(edges)  BY DEF SccTypes, Nodes
  <1>2. \A v \in Nodes : edges[v] \in Seq(Nodes)  BY DEF SccTypes, Nodes
  <1>3. \A v \in Nodes : Len(edges[v]) \in Nat /\ DOMAIN edges[v] = 1 .. Len(edges[v])  BY <1>2
  <1>4. \A v \in Nodes : \A i \in DOMAIN edges[v] : edges[v][i] \in Nodes  BY <1>2
  <1>5. /\ Len(active) \in Nat /\ DOMAIN active = 1 .. Len(active)
        /\ \A i \in DOMAIN active : active[i] \in Nodes /\ active[i] \in Calls
    BY DEF SccTypes, Calls, ToSet
  <1>6. /\ Len(stack) \in Nat /\ DOMAIN stack = 1 .. Len(stack)
        /\ \A i \in DOMAIN stack : stack[i] \in Nodes
    BY DEF SccTypes
  <1>7. IsFiniteSet(Nodes) /\ Cardinality(Nodes) = Len(edges)
    <2>1. 1 \in Int /\ Len(edges) \in Int  BY <1>1
    <2>2. /\ IsFiniteSet(1 .. Len(edges))
          /\ Cardinality(1 .. Len(edges)) = IF 1 > Len(edges) THEN 0 ELSE Len(edges) - 1 + 1
      BY <2>1, FS_Interval
    <2>3. Cardinality(1 .. Len(edges)) = Len(edges)  BY <1>1, <2>2
    <2>. QED  BY <1>1, <2>2, <2>3
  <1>8. Seen \subseteq Nodes  BY DEF Seen
  <1>9. IsFiniteSet(Seen)  BY <1>7, <1>8, FS_Subset
  <1>10. counter \in Nat  BY <1>9, FS_CardinalityType DEF SccTypes
  <1>. QED  BY <1>1, <1>2, <1>3, <1>4, <1>5, <1>6, <1>7, <1>8, <1>9, <1>10

(* What it does, of the stacks as sets. *)
LEMMA EnterFacts ==
    ASSUME SccTypes, NEW v \in Nodes, index[v] = NotVisited, Enter(v)
    PROVE  /\ edges' = edges /\ sccs' = sccs /\ edge' = edge /\ Nodes' = Nodes
           /\ v \notin Seen /\ Seen' = Seen \cup {v}
           /\ counter' = counter + 1 /\ counter < Len(edges)
           /\ index' \in [Nodes -> Nat] /\ index'[v] = counter
           /\ \A x \in Nodes : x # v => index'[x] = index[x]
           /\ lowlink' \in [Nodes -> Nat] /\ lowlink'[v] = counter
           /\ \A x \in Nodes : x # v => lowlink'[x] = lowlink[x]
           /\ on_stack' = on_stack \cup {v} /\ Calls' = Calls \cup {v}
           /\ SccTypes' \/ ~(root' \in 1 .. Len(edges) + 1)
  <1>0. counter \in Nat /\ Len(edges) \in Nat /\ Nodes = 1 .. Len(edges)  BY SccSizes
  <1>1. edges' = edges /\ sccs' = sccs /\ edge' = edge /\ Nodes' = Nodes  BY DEF Enter, Nodes
  <1>2. v \notin Seen  BY DEF Seen
  <1>3. counter < Len(edges)
    <2>1. Seen \in SUBSET Nodes /\ Seen # Nodes /\ IsFiniteSet(Nodes)  BY <1>2, SccSizes
    <2>2. Cardinality(Seen) <= Cardinality(Nodes) /\ Cardinality(Nodes) # Cardinality(Seen)
      BY <2>1, FS_Subset
    <2>. QED  BY <1>0, <2>2, SccSizes DEF SccTypes
  <1>4. /\ index' \in [Nodes -> Nat] /\ index'[v] = counter
        /\ \A x \in Nodes : x # v => index'[x] = index[x]
        /\ lowlink' \in [Nodes -> Nat] /\ lowlink'[v] = counter
        /\ \A x \in Nodes : x # v => lowlink'[x] = lowlink[x]
        /\ counter' = counter + 1
    BY <1>0 DEF Enter, SccTypes
  <1>5. Seen' = Seen \cup {v}
    BY <1>0, <1>1, <1>3, <1>4 DEF Seen, NotVisited
  <1>6. /\ on_stack' = on_stack \cup {v} /\ Calls' = Calls \cup {v}
        /\ stack' \in Seq(Nodes) /\ active' \in Seq(Nodes)
    BY AppendIs DEF Enter, SccTypes, Calls
  <1>7. counter' = Cardinality(Seen')
    <2>1. Cardinality(Seen \cup {v}) = Cardinality(Seen) + 1  BY <1>2, SccSizes, FS_AddElement
    <2>. QED  BY <2>1, <1>4, <1>5 DEF SccTypes
  <1>8. SccTypes' \/ ~(root' \in 1 .. Len(edges) + 1)
    BY <1>1, <1>4, <1>6, <1>7 DEF SccTypes, Nodes
  <1>. QED  BY <1>1, <1>2, <1>3, <1>4, <1>5, <1>6, <1>8

(* The facts of a call that was made, with the invariant it was made in. *)
Entering(v) ==
    /\ v \in Nodes /\ index[v] = NotVisited /\ Enter(v)
    /\ \A x \in on_stack : Leads(edges, x, v)
    /\ active # <<>> => /\ edge[Last(active)] \in DOMAIN edges[Last(active)]
                       /\ edges[Last(active)][edge[Last(active)]] = v
    /\ root' \in 1 .. Len(edges) + 1
    /\ \A w \in Nodes : w < root' => w = v \/ w < root

LEMMA EnterKeeps ==
    ASSUME ConnectInv, NEW v, Entering(v)
    PROVE  ConnectInv'
  <1>. USE DEF ConnectInv
  <1>0. v \in Nodes /\ index[v] = NotVisited /\ Enter(v)  BY DEF Entering
  <1>1. /\ edges' = edges /\ sccs' = sccs /\ edge' = edge /\ Nodes' = Nodes
        /\ v \notin Seen /\ Seen' = Seen \cup {v}
        /\ counter' = counter + 1 /\ counter < Len(edges)
        /\ index' \in [Nodes -> Nat] /\ index'[v] = counter
        /\ \A x \in Nodes : x # v => index'[x] = index[x]
        /\ lowlink' \in [Nodes -> Nat] /\ lowlink'[v] = counter
        /\ \A x \in Nodes : x # v => lowlink'[x] = lowlink[x]
        /\ on_stack' = on_stack \cup {v} /\ Calls' = Calls \cup {v}
    BY <1>0, EnterFacts
  <1>2. SccTypes'  BY <1>0, EnterFacts DEF Entering
  <1>3. /\ Seen \subseteq Nodes /\ counter \in Nat /\ index \in [Nodes -> Nat]
        /\ on_stack \subseteq Seen /\ Calls \subseteq on_stack /\ v \notin on_stack /\ v \notin Calls
        /\ \A x \in Seen : index'[x] = index[x] /\ index'[x] < counter /\ lowlink'[x] = lowlink[x]
                           /\ index[x] \in Nat
    BY <1>1, SccSizes DEF SccTypes, Numbered, OnStack, InCall
  <1>4. Numbered'
    <2>1. \A x \in Seen' : index'[x] < counter'  BY <1>1, <1>3
    <2>2. \A x, y \in Seen' : index'[x] = index'[y] => x = y  BY <1>1, <1>3 DEF Numbered
    <2>3. \A x \in Nodes : x < root' => x \in Seen'  BY <1>1 DEF Numbered, Entering
    <2>. QED  BY <1>1, <2>1, <2>2, <2>3 DEF Numbered
  <1>5. /\ Len(stack') = Len(stack) + 1 /\ DOMAIN stack' = 1 .. Len(stack) + 1
        /\ \A i \in 1 .. Len(stack) : stack'[i] = stack[i]
        /\ stack'[Len(stack) + 1] = v
        /\ Len(active') = Len(active) + 1 /\ DOMAIN active' = 1 .. Len(active) + 1
        /\ \A i \in 1 .. Len(active) : active'[i] = active[i]
        /\ active'[Len(active) + 1] = v
        /\ ToSet(stack') = ToSet(stack) \cup {v}
    BY <1>0, AppendIs DEF Enter, SccTypes
  <1>6. OnStack'
    <2>1. on_stack' = ToSet(stack') /\ on_stack' \subseteq Seen'  BY <1>1, <1>5 DEF OnStack
    <2>2. \A i \in 1 .. Len(stack) : stack[i] \in on_stack  BY SccSizes DEF OnStack, ToSet
    <2>3. ASSUME NEW i \in DOMAIN stack', NEW j \in DOMAIN stack', i < j
          PROVE  index'[stack'[i]] < index'[stack'[j]]
      <3>1. i \in 1 .. Len(stack) /\ stack'[i] = stack[i] /\ stack[i] \in on_stack
        BY <1>5, <2>2, <2>3, SccSizes
      <3>2. CASE j = Len(stack) + 1  BY <1>1, <1>3, <1>5, <3>1, <3>2
      <3>3. CASE j \in 1 .. Len(stack)
        BY <1>3, <1>5, <2>2, <2>3, <3>1, <3>3, SccSizes DEF OnStack
      <3>. QED  BY <1>5, <3>2, <3>3, SccSizes
    <2>. QED  BY <2>1, <2>3 DEF OnStack
  <1>7. InCall'
    <2>1. Calls' \subseteq on_stack'  BY <1>1, <1>3
    <2>2. \A i \in 1 .. Len(active) : active[i] \in Calls  BY SccSizes
    <2>3. ASSUME NEW i \in DOMAIN active', NEW j \in DOMAIN active', i < j
          PROVE  index'[active'[i]] < index'[active'[j]]
      <3>1. i \in 1 .. Len(active) /\ active'[i] = active[i] /\ active[i] \in on_stack
        BY <1>3, <1>5, <2>2, <2>3, SccSizes
      <3>2. CASE j = Len(active) + 1  BY <1>1, <1>3, <1>5, <3>1, <3>2
      <3>3. CASE j \in 1 .. Len(active)
        BY <1>3, <1>5, <2>2, <2>3, <3>1, <3>3, SccSizes DEF InCall
      <3>. QED  BY <1>5, <3>2, <3>3, SccSizes
    <2>4. ASSUME NEW i \in DOMAIN active', i < Len(active')
          PROVE  /\ edge[active'[i]] \in DOMAIN edges[active'[i]]
                 /\ edges[active'[i]][edge[active'[i]]] = active'[i + 1]
      <3>1. i \in 1 .. Len(active) /\ i \in DOMAIN active /\ active'[i] = active[i]
        BY <1>5, <2>4, SccSizes
      <3>2. CASE i = Len(active)
        <4>1. active # <<>> /\ Last(active) = active[i]  BY <3>1, <3>2 DEF Last
        <4>2. active'[i + 1] = v  BY <1>5, <3>2
        <4>. QED  BY <3>1, <4>1, <4>2 DEF Entering
      <3>3. CASE i < Len(active)
        <4>1. i + 1 \in 1 .. Len(active)  BY <3>1, <3>3, SccSizes
        <4>2. active'[i + 1] = active[i + 1]  BY <1>5, <4>1
        <4>. QED  BY <3>1, <3>3, <4>2 DEF InCall
      <3>. QED  BY <3>1, <3>2, <3>3, SccSizes
    <2>. QED  BY <1>1, <2>1, <2>3, <2>4 DEF InCall
  <1>8. Progressed'
    <2>1. \A x \in Nodes \ Seen' : edge[x] = 1  BY <1>1 DEF Progressed
    <2>2. \A x \in Seen' \ Calls' : edge[x] > Len(edges[x])  BY <1>1 DEF Progressed
    <2>3. edge[v] = 1  BY <1>0, <1>1 DEF Progressed
    <2>4. ASSUME NEW x \in Seen', NEW i \in DOMAIN edges[x], i < edge[x]
          PROVE  edges[x][i] \in Seen'
      <3>1. CASE x = v  BY <1>0, <2>3, <2>4, <3>1, SccSizes
      <3>2. CASE x # v  BY <1>1, <2>4, <3>2 DEF Progressed, Followed
      <3>. QED  BY <3>1, <3>2
    <2>. QED  BY <1>1, <2>1, <2>2, <2>4 DEF Progressed, Followed
  <1>9. LowSound'
    <2> SUFFICES ASSUME NEW g \in Calls'
                 PROVE  /\ lowlink'[g] <= index'[g]
                        /\ \E u \in on_stack' : index'[u] = lowlink'[g] /\ Leads(edges, g, u)
      BY <1>1 DEF LowSound
    <2>1. CASE g = v  BY <1>1, <1>3, <2>1, LeadsSelf
    <2>2. CASE g # v
      <3>1. g \in Calls /\ g \in Seen  BY <1>1, <1>3, <2>2
      <3>2. lowlink[g] <= index[g]  BY <3>1 DEF LowSound
      <3>3. PICK u \in on_stack : index[u] = lowlink[g] /\ Leads(edges, g, u)  BY <3>1 DEF LowSound
      <3>4. u \in Seen /\ u \in on_stack'  BY <1>1, <1>3
      <3>. QED  BY <1>3, <3>1, <3>2, <3>3, <3>4
    <2>. QED  BY <2>1, <2>2
  <1>10. StackLeads'
    <2>1. ASSUME NEW x \in on_stack', NEW y \in on_stack', index'[x] <= index'[y]
          PROVE  Leads(edges, x, y)
      <3>1. CASE x = y  BY <3>1, LeadsSelf
      <3>2. CASE x # y /\ y = v
        BY <1>1, <3>2 DEF Entering
      <3>3. CASE x = v /\ y # v
        <4>1. y \in Seen  BY <1>1, <1>3, <3>3
        <4>2. index'[y] < counter /\ index'[x] = counter /\ index'[y] \in Nat  BY <1>1, <1>3, <3>3, <4>1
        <4>. QED  BY <1>3, <2>1, <4>2
      <3>4. CASE x # v /\ y # v
        <4>1. x \in on_stack /\ y \in on_stack /\ x \in Seen /\ y \in Seen  BY <1>1, <1>3, <3>4
        <4>. QED  BY <1>3, <2>1, <4>1 DEF StackLeads
      <3>. QED  BY <3>1, <3>2, <3>3, <3>4
    <2>2. ASSUME NEW y \in on_stack'
          PROVE  \E g \in Calls' : index'[g] <= index'[y] /\ Leads(edges, y, g)
      <3>1. CASE y = v
        <4>1. v \in Calls' /\ index'[v] <= index'[v] /\ Leads(edges, v, v)  BY <1>1, <1>3, LeadsSelf
        <4>. QED  BY <3>1, <4>1
      <3>2. CASE y # v
        <4>1. y \in on_stack /\ y \in Seen  BY <1>1, <1>3, <3>2
        <4>2. PICK g \in Calls : index[g] <= index[y] /\ Leads(edges, y, g)  BY <4>1 DEF StackLeads
        <4>3. g \in Seen /\ g \in Calls'  BY <1>1, <1>3
        <4>. QED  BY <1>3, <4>1, <4>2, <4>3
      <3>. QED  BY <3>1, <3>2
    <2>. QED  BY <1>1, <2>1, <2>2 DEF StackLeads
  <1>11. LowComplete'
    <2> SUFFICES ASSUME NEW g \in Calls', NEW y \in on_stack', Owns(g, y)',
                        NEW i \in DOMAIN edges[y], i < edge[y], edges[y][i] \in on_stack'
                 PROVE  lowlink'[g] <= index'[edges[y][i]]
      BY <1>1 DEF LowComplete, Followed
    <2>1. y # v
      <3>1. edge[v] = 1  BY <1>0, <1>1 DEF Progressed
      <3>2. DOMAIN edges[v] = 1 .. Len(edges[v])  BY <1>0, SccSizes
      <3>. QED  BY <3>1, <3>2
    <2>2. y \in on_stack /\ y \in Seen  BY <1>1, <1>3, <2>1
    <2>3. edges[y][i] \in Seen  BY <2>2 DEF Progressed, Followed
    <2>4. edges[y][i] \in on_stack  BY <1>1, <2>3
    <2>5. index'[g] <= index'[y] /\ \A h \in Calls' : index'[h] <= index'[y] => index'[h] <= index'[g]
      BY DEF Owns
    <2>6. g # v
      <3>1. index'[y] < counter /\ index'[v] = counter /\ index'[y] \in Nat  BY <1>1, <1>3, <2>2
      <3>. QED  BY <1>3, <2>5, <3>1
    <2>7. g \in Calls /\ g \in Seen  BY <1>1, <1>3, <2>6
    <2>8. Owns(g, y)  BY <1>1, <1>3, <2>2, <2>5, <2>7 DEF Owns
    <2>9. lowlink[g] <= index[edges[y][i]]  BY <2>2, <2>4, <2>7, <2>8 DEF LowComplete, Followed
    <2>. QED  BY <1>3, <2>3, <2>7, <2>9
  <1>12. Components'
    <2>1. Seen' \ on_stack' = Seen \ on_stack  BY <1>1
    <2>. QED  BY <1>1, <2>1 DEF Components, InScc
  <1>. QED  BY <1>2, <1>4, <1>6, <1>7, <1>8, <1>9, <1>10, <1>11, <1>12

(* The innermost call is the last that was made. *)
LEMMA LastCall ==
    ASSUME ConnectInv, active # <<>>, NEW v, v = Last(active)
    PROVE  /\ v \in Calls /\ v \in Nodes /\ v \in on_stack /\ v \in Seen
           /\ Len(active) \in Nat \ {0} /\ v = active[Len(active)]
           /\ \A g \in Calls : index[g] <= index[v] /\ g \in on_stack
           /\ \A i \in DOMAIN active : i < Len(active) => index[active[i]] < index[v]
  <1>. USE DEF ConnectInv
  <1>1. /\ Len(active) \in Nat \ {0} /\ Len(active) \in DOMAIN active
        /\ v = active[Len(active)] /\ v \in Calls /\ v \in Nodes
    BY LastIs DEF SccTypes, Calls
  <1>2. v \in on_stack /\ v \in Seen  BY <1>1 DEF InCall, OnStack
  <1>3. \A i \in DOMAIN active : i < Len(active) => index[active[i]] < index[v]
    BY <1>1 DEF InCall
  <1>4. ASSUME NEW g \in Calls PROVE index[g] <= index[v] /\ g \in on_stack
    <2>1. PICK i \in DOMAIN active : g = active[i]  BY DEF Calls, ToSet
    <2>2. g \in on_stack /\ index[g] \in Nat /\ index[v] \in Nat
      BY <1>1, <2>1, SccSizes DEF InCall, SccTypes
    <2>3. CASE i = Len(active)  BY <1>1, <2>1, <2>2, <2>3
    <2>4. CASE i < Len(active)  BY <1>3, <2>1, <2>2, <2>4
    <2>. QED  BY <2>1, <2>3, <2>4, SccSizes
  <1>. QED  BY <1>1, <1>2, <1>3, <1>4

(* The call at the edge to w leads every node on the stack to w. *)
LEMMA FollowingLeads ==
    ASSUME ConnectInv, NEW v, NEW w, Following(v, w)
    PROVE  /\ w \in Nodes /\ w \in ToSet(edges[v]) /\ Leads(edges, v, w)
           /\ \A x \in on_stack : Leads(edges, x, w)
  <1>. USE DEF ConnectInv
  <1>1. /\ v \in Calls /\ v \in Nodes /\ v \in on_stack
        /\ \A g \in Calls : index[g] <= index[v] /\ g \in on_stack
    BY LastCall DEF Following
  <1>2. w \in ToSet(edges[v]) /\ w \in Nodes  BY <1>1, SccSizes DEF Following, ToSet
  <1>3. Leads(edges, v, w)  BY <1>1, <1>2, LeadsEdge DEF Nodes
  <1>4. ASSUME NEW x \in on_stack PROVE Leads(edges, x, w)
    <2>1. PICK g \in Calls : Leads(edges, x, g)  BY DEF StackLeads
    <2>2. Leads(edges, g, v)  BY <1>1 DEF StackLeads
    <2>. QED  BY <1>3, <2>1, <2>2, LeadsOn
  <1>. QED  BY <1>2, <1>3, <1>4

LEMMA VisitRootKeeps == ASSUME ConnectInv, VisitRoot PROVE ConnectInv'
  <1>. USE DEF ConnectInv
  <1>1. Calls = {} /\ on_stack = {}  BY DEF VisitRoot, Calls, ToSet, StackLeads
  <1>2. root \in 1 .. Len(edges) /\ Len(edges) \in Nat /\ Nodes = 1 .. Len(edges)
    BY SccSizes DEF VisitRoot
  <1>3. root' \in 1 .. Len(edges) + 1 /\ \A w \in Nodes : w < root' => w = root \/ w < root
    BY <1>2 DEF VisitRoot
  <1>4. Entering(root)  BY <1>1, <1>3 DEF Entering, VisitRoot
  <1>. QED  BY <1>4, EnterKeeps

LEMMA CallKeeps == ASSUME ConnectInv, Call PROVE ConnectInv'
  <1>1. PICK v, w \in Nodes : Following(v, w) /\ index[w] = NotVisited /\ Enter(w) /\ root' = root
    BY DEF Call
  <1>2. \A x \in on_stack : Leads(edges, x, w)  BY <1>1, FollowingLeads
  <1>3. Entering(w)  BY <1>1, <1>2 DEF Entering, Following, ConnectInv, SccTypes
  <1>. QED  BY <1>3, EnterKeeps

LEMMA SkipRootKeeps == ASSUME ConnectInv, SkipRoot PROVE ConnectInv'
  <1>. USE DEF ConnectInv
  <1>1. root \in 1 .. Len(edges) /\ Len(edges) \in Nat /\ Nodes = 1 .. Len(edges)
    BY SccSizes DEF SkipRoot
  <1>2. Seen' = Seen /\ Calls' = Calls /\ Nodes' = Nodes /\ NotVisited' = NotVisited
    BY DEF SkipRoot, Seen, Calls, Nodes, NotVisited
  <1>3. root \in Seen  BY DEF SkipRoot, Seen
  <1>4. SccTypes'  BY <1>1, <1>2 DEF SccTypes, SkipRoot
  <1>5. Numbered'
    <2>1. \A v \in Nodes : v < root' => v \in Seen  BY <1>1, <1>3 DEF SkipRoot, Numbered
    <2>. QED  BY <1>2, <2>1 DEF Numbered, SkipRoot
  <1>6. OnStack' /\ InCall' /\ Progressed'
    BY <1>2 DEF OnStack, InCall, Progressed, Followed, SkipRoot
  <1>7. LowSound' /\ StackLeads'  BY <1>2 DEF LowSound, StackLeads, SkipRoot
  <1>8. LowComplete'  BY <1>2 DEF LowComplete, Owns, Followed, SkipRoot
  <1>9. Components'  BY <1>2 DEF Components, InScc, SkipRoot
  <1>. QED  BY <1>4, <1>5, <1>6, <1>7, <1>8, <1>9

(* An edge to a node that was seen before. *)
LEMMA LookKeeps == ASSUME ConnectInv, Look PROVE ConnectInv'
  <1>. USE DEF ConnectInv
  <1>0. PICK v, w \in Nodes :
          /\ Following(v, w) /\ index[w] # NotVisited
          /\ lowlink' = IF w \in on_stack
                        THEN [lowlink EXCEPT ![v] = min(@, index[w])] ELSE lowlink
          /\ edge' = [edge EXCEPT ![v] = @ + 1]
          /\ UNCHANGED <<edges, index, on_stack, stack, counter, sccs, root, active, sortVars>>
    BY DEF Look
  <1>1. /\ v \in Calls /\ v \in Nodes /\ v \in on_stack /\ v \in Seen
        /\ \A g \in Calls : index[g] <= index[v] /\ g \in on_stack
        /\ Len(active) \in Nat \ {0} /\ v = active[Len(active)]
        /\ \A i \in DOMAIN active : i < Len(active) => index[active[i]] < index[v]
    BY <1>0, LastCall DEF Following
  <1>2. /\ edges' = edges /\ index' = index /\ on_stack' = on_stack /\ stack' = stack
        /\ counter' = counter /\ sccs' = sccs /\ root' = root /\ active' = active
        /\ Seen' = Seen /\ Calls' = Calls /\ Nodes' = Nodes /\ NotVisited' = NotVisited
    BY <1>0 DEF Seen, Calls, Nodes, NotVisited
  <1>3. /\ edge[v] \in DOMAIN edges[v] /\ w = edges[v][edge[v]] /\ w \in Seen
        /\ Leads(edges, v, w)
    BY <1>0, FollowingLeads DEF Following, Seen
  <1>4. /\ lowlink \in [Nodes -> Nat] /\ index \in [Nodes -> Nat] /\ edge \in [Nodes -> Nat \ {0}]
        /\ index[w] \in Nat /\ lowlink[v] \in Nat
    BY <1>1 DEF SccTypes
  <1>5. /\ lowlink' \in [Nodes -> Nat]
        /\ \A x \in Nodes : x # v => lowlink'[x] = lowlink[x]
        /\ lowlink'[v] <= lowlink[v] /\ (w \in on_stack => lowlink'[v] <= index[w])
        /\ lowlink'[v] = lowlink[v] \/ (w \in on_stack /\ lowlink'[v] = index[w])
    BY <1>0, <1>4 DEF min
  <1>6. /\ edge' \in [Nodes -> Nat \ {0}] /\ edge'[v] = edge[v] + 1
        /\ \A x \in Nodes : x # v => edge'[x] = edge[x]
    BY <1>0, <1>4
  <1>7. SccTypes'  BY <1>2, <1>5, <1>6 DEF SccTypes
  <1>8. Numbered' /\ OnStack'  BY <1>2 DEF Numbered, OnStack
  <1>9. InCall'
    <2>1. ASSUME NEW i \in DOMAIN active, i < Len(active) PROVE edge'[active[i]] = edge[active[i]]
      <3>1. active[i] # v /\ active[i] \in Nodes
        BY <1>1, <1>4, <2>1, SccSizes
      <3>. QED  BY <1>6, <3>1
    <2>. QED  BY <1>2, <2>1 DEF InCall
  <1>10. Progressed'
    <2>1. \A x \in Nodes \ Seen : edge'[x] = 1  BY <1>1, <1>6 DEF Progressed
    <2>2. ASSUME NEW x \in Seen \ Calls PROVE edge'[x] > Len(edges[x])
      <3>1. x # v /\ x \in Nodes  BY <1>1, SccSizes
      <3>. QED  BY <1>6, <3>1 DEF Progressed
    <2>3. ASSUME NEW x \in Seen, NEW i \in DOMAIN edges[x], i < edge'[x] PROVE edges[x][i] \in Seen
      <3>a. x \in Nodes  BY SccSizes
      <3>b. DOMAIN edges[x] = 1 .. Len(edges[x]) /\ Len(edges[x]) \in Nat  BY <3>a, SccSizes
      <3>0. x \in Nodes /\ i \in Nat /\ edge[x] \in Nat  BY <1>4, <3>a, <3>b
      <3>1. CASE i < edge[x]  BY <3>1 DEF Progressed, Followed
      <3>2. CASE ~(i < edge[x])
        <4>1. x = v /\ i = edge[v]  BY <1>6, <2>3, <3>0, <3>2
        <4>. QED  BY <1>3, <4>1
      <3>. QED  BY <3>1, <3>2
    <2>. QED  BY <1>2, <2>1, <2>2, <2>3 DEF Progressed, Followed
  <1>11. LowSound'
    <2> SUFFICES ASSUME NEW g \in Calls
                 PROVE  /\ lowlink'[g] <= index[g]
                        /\ \E u \in on_stack : index[u] = lowlink'[g] /\ Leads(edges, g, u)
      BY <1>2 DEF LowSound
    <2>0. g \in Nodes /\ lowlink[g] \in Nat /\ lowlink'[g] \in Nat /\ index[g] \in Nat
      BY <1>1, <1>4, <1>5 DEF SccTypes
    <2>1. lowlink[g] <= index[g]  BY DEF LowSound
    <2>2. PICK u \in on_stack : index[u] = lowlink[g] /\ Leads(edges, g, u)  BY DEF LowSound
    <2>3. lowlink'[g] <= lowlink[g]  BY <1>5, <2>0
    <2>4. CASE lowlink'[g] = lowlink[g]  BY <2>1, <2>2, <2>4
    <2>5. CASE lowlink'[g] # lowlink[g]
      <3>1. g = v /\ w \in on_stack /\ lowlink'[g] = index[w]  BY <1>5, <2>0, <2>5
      <3>. QED  BY <1>3, <2>0, <2>1, <2>3, <3>1
    <2>. QED  BY <2>4, <2>5
  <1>12. StackLeads'  BY <1>2 DEF StackLeads
  <1>13. LowComplete'
    <2> SUFFICES ASSUME NEW g \in Calls, NEW y \in on_stack, Owns(g, y),
                        NEW i \in DOMAIN edges[y], i < edge'[y], edges[y][i] \in on_stack
                 PROVE  lowlink'[g] <= index[edges[y][i]]
      BY <1>2 DEF LowComplete, Followed, Owns
    <2>a. g \in Nodes /\ y \in Nodes  BY <1>1 DEF SccTypes
    <2>b. DOMAIN edges[y] = 1 .. Len(edges[y]) /\ Len(edges[y]) \in Nat  BY <2>a, SccSizes
    <2>c. edges[y][i] \in Nodes  BY <2>a, SccSizes
    <2>d. i \in Nat /\ edge[y] \in Nat  BY <1>4, <2>a, <2>b
    <2>e. lowlink[g] \in Nat /\ lowlink'[g] \in Nat  BY <1>4, <1>5, <2>a
    <2>f. index[edges[y][i]] \in Nat  BY <1>4, <2>c
    <2>0. /\ g \in Nodes /\ y \in Nodes /\ i \in Nat /\ edge[y] \in Nat /\ edges[y][i] \in Nodes
          /\ lowlink[g] \in Nat /\ lowlink'[g] \in Nat /\ index[edges[y][i]] \in Nat
      BY <2>a, <2>c, <2>d, <2>e, <2>f
    <2>1. lowlink'[g] <= lowlink[g]  BY <1>5, <2>0
    <2>2. CASE i < edge[y]
      <3>1. lowlink[g] <= index[edges[y][i]]  BY <2>2 DEF LowComplete, Followed
      <3>. QED  BY <2>0, <2>1, <3>1
    <2>3. CASE ~(i < edge[y])
      <3>1. y = v /\ i = edge[v]  BY <1>6, <2>0, <2>3
      <3>2. index[g] <= index[v] /\ index[v] <= index[g]  BY <1>1, <1>4, <3>1 DEF Owns
      <3>3. g = v
        <4>1. g \in Seen /\ v \in Seen /\ index[g] = index[v]
          BY <1>1, <1>4, <2>0, <3>2 DEF OnStack
        <4>. QED  BY <4>1 DEF Numbered
      <3>. QED  BY <1>3, <1>5, <3>1, <3>3
    <2>. QED  BY <2>2, <2>3
  <1>14. Components'  BY <1>2 DEF Components, InScc
  <1>. QED  BY <1>7, <1>8, <1>9, <1>10, <1>11, <1>12, <1>13, <1>14

-----------------------------------------------------------------------------
(* A call of strongconnect ends.                                           *)

(* The nodes on the stack from v up. *)
Top(v) == {y \in on_stack : index[v] <= index[y]}

(* The component that is popped. *)
PoppedNodes(v) == Reverse(SubSeq(stack, Place(v), Len(stack)))

LEMMA PopFacts ==
    ASSUME ConnectInv, NEW v \in on_stack
    PROVE  /\ Place(v) \in 1 .. Len(stack) /\ stack[Place(v)] = v
           /\ {stack[i] : i \in Place(v) .. Len(stack)} = Top(v)
           /\ SubSeq(stack, 1, Place(v) - 1) \in Seq(Nodes)
           /\ Len(SubSeq(stack, 1, Place(v) - 1)) = Place(v) - 1
           /\ \A i \in 1 .. Place(v) - 1 : SubSeq(stack, 1, Place(v) - 1)[i] = stack[i]
           /\ ToSet(SubSeq(stack, 1, Place(v) - 1)) = on_stack \ Top(v)
           /\ PoppedNodes(v) \in Seq(Nodes) /\ PoppedNodes(v) # <<>>
           /\ ToSet(PoppedNodes(v)) = Top(v)
           /\ \A i, j \in DOMAIN PoppedNodes(v) : PoppedNodes(v)[i] = PoppedNodes(v)[j] => i = j
  <1>. USE DEF ConnectInv
  <1>1. Place(v) \in DOMAIN stack /\ stack[Place(v)] = v
    <2>1. \E i \in DOMAIN stack : stack[i] = v  BY DEF OnStack, ToSet
    <2>. QED  BY <2>1 DEF Place
  <1>2. PICK k, n : k = Place(v) /\ n = Len(stack)  OBVIOUS
  <1>3. n \in Nat /\ DOMAIN stack = 1 .. n /\ k \in 1 .. n /\ k \in DOMAIN stack /\ stack[k] = v
    BY <1>1, <1>2, SccSizes
  <1>4. /\ \A i \in 1 .. n : stack[i] \in Nodes /\ stack[i] \in on_stack /\ index[stack[i]] \in Nat
        /\ \A y \in on_stack : \E i \in 1 .. n : stack[i] = y
    BY <1>3, SccSizes DEF OnStack, ToSet, SccTypes
  <1>5. \A i, j \in 1 .. n : i < j => index[stack[i]] < index[stack[j]]
    BY <1>3 DEF OnStack
  <1>6. \A i \in 1 .. n : i >= k <=> stack[i] \in Top(v)
    BY <1>3, <1>4, <1>5 DEF Top
  <1>7. {stack[i] : i \in k .. n} = Top(v)
    <2>1. ASSUME NEW y \in Top(v) PROVE \E i \in k .. n : y = stack[i]
      <3>1. PICK i \in 1 .. n : stack[i] = y  BY <1>4 DEF Top
      <3>. QED  BY <1>3, <1>6, <3>1
    <2>2. ASSUME NEW i \in k .. n PROVE stack[i] \in Top(v)  BY <1>3, <1>6
    <2>. QED  BY <2>1, <2>2
  <1>8. PICK m : m = k - 1  OBVIOUS
  <1>9. m \in Nat /\ m \in Int /\ 1 \in Int /\ m <= n /\ k \in Int /\ n \in Int /\ k <= n
        /\ m = k - 1
    BY <1>3, <1>8
  <1>10. /\ SubSeq(stack, 1, m) \in Seq(Nodes)
         /\ Len(SubSeq(stack, 1, m)) = m
         /\ \A i \in 1 .. m : SubSeq(stack, 1, m)[i] = stack[i]
    <2>1. \A i \in 1 .. m : stack[i] \in Nodes  BY <1>4, <1>9
    <2>2. /\ SubSeq(stack, 1, m) \in Seq(Nodes)
          /\ Len(SubSeq(stack, 1, m)) = IF 1 <= m THEN m - 1 + 1 ELSE 0
          /\ \A i \in 1 .. m - 1 + 1 : SubSeq(stack, 1, m)[i] = stack[1 + i - 1]
      BY <1>9, <2>1, SubSeqProperties
    <2>3. Len(SubSeq(stack, 1, m)) = m  BY <1>9, <2>2
    <2>4. ASSUME NEW i \in 1 .. m PROVE SubSeq(stack, 1, m)[i] = stack[i]
      <3>1. i \in 1 .. m - 1 + 1 /\ 1 + i - 1 = i  BY <1>9
      <3>. QED  BY <2>2, <3>1
    <2>. QED  BY <2>2, <2>3, <2>4
  <1>11. ToSet(SubSeq(stack, 1, m)) = on_stack \ Top(v)
    <2>0. DOMAIN SubSeq(stack, 1, m) = 1 .. m  BY <1>10
    <2>1. ASSUME NEW y \in on_stack \ Top(v) PROVE y \in ToSet(SubSeq(stack, 1, m))
      <3>1. PICK i \in 1 .. n : stack[i] = y  BY <1>4
      <3>2. i \in 1 .. m  BY <1>6, <1>9, <3>1
      <3>. QED  BY <1>10, <2>0, <3>1, <3>2 DEF ToSet
    <2>2. ASSUME NEW y \in ToSet(SubSeq(stack, 1, m)) PROVE y \in on_stack \ Top(v)
      <3>1. PICK i \in 1 .. m : y = stack[i]  BY <1>10, <2>0 DEF ToSet
      <3>2. i \in 1 .. n /\ ~(i >= k)  BY <1>9
      <3>. QED  BY <1>4, <1>6, <3>1, <3>2
    <2>. QED  BY <2>1, <2>2
  <1>12. PICK l : l = n - k + 1  OBVIOUS
  <1>13. l \in Nat /\ l > 0 /\ l = n - k + 1  BY <1>3, <1>12
  <1>14. /\ SubSeq(stack, k, n) \in Seq(Nodes) /\ Len(SubSeq(stack, k, n)) = l
         /\ \A i \in 1 .. l : SubSeq(stack, k, n)[i] = stack[k + i - 1]
    <2>1. \A i \in k .. n : stack[i] \in Nodes  BY <1>3, <1>4
    <2>2. /\ SubSeq(stack, k, n) \in Seq(Nodes)
          /\ Len(SubSeq(stack, k, n)) = IF k <= n THEN n - k + 1 ELSE 0
          /\ \A i \in 1 .. n - k + 1 : SubSeq(stack, k, n)[i] = stack[k + i - 1]
      BY <1>9, <2>1, SubSeqProperties
    <2>. QED  BY <1>9, <1>13, <2>2
  <1>15. PoppedNodes(v) = [i \in 1 .. l |-> SubSeq(stack, k, n)[l - i + 1]]
    BY <1>2, <1>14 DEF PoppedNodes, Reverse
  <1>16. ASSUME NEW i \in 1 .. l
         PROVE  PoppedNodes(v)[i] = stack[n - i + 1] /\ n - i + 1 \in k .. n /\ n - i + 1 \in 1 .. n
    <2>1. l - i + 1 \in 1 .. l /\ k + (l - i + 1) - 1 = n - i + 1  BY <1>3, <1>13
    <2>2. n - i + 1 \in k .. n /\ n - i + 1 \in 1 .. n  BY <1>3, <1>13
    <2>. QED  BY <1>14, <1>15, <2>1, <2>2
  <1>17. PoppedNodes(v) \in Seq(Nodes) /\ DOMAIN PoppedNodes(v) = 1 .. l /\ Len(PoppedNodes(v)) = l
    <2>1. \A i \in 1 .. l : PoppedNodes(v)[i] \in Nodes  BY <1>4, <1>16
    <2>2. PoppedNodes(v) \in [1 .. l -> Nodes]  BY <1>15, <2>1
    <2>. QED  BY <1>13, <2>2
  <1>18. PoppedNodes(v) # <<>>  BY <1>13, <1>17
  <1>19. ToSet(PoppedNodes(v)) = Top(v)
    <2>1. ASSUME NEW y \in Top(v) PROVE y \in ToSet(PoppedNodes(v))
      <3>1. PICK i \in k .. n : y = stack[i]  BY <1>7
      <3>2. n - i + 1 \in 1 .. l /\ n - (n - i + 1) + 1 = i  BY <1>3, <1>13
      <3>. QED  BY <1>16, <1>17, <3>1, <3>2 DEF ToSet
    <2>2. ASSUME NEW y \in ToSet(PoppedNodes(v)) PROVE y \in Top(v)
      BY <1>7, <1>16, <1>17 DEF ToSet
    <2>. QED  BY <2>1, <2>2
  <1>20. ASSUME NEW i \in 1 .. l, NEW j \in 1 .. l, PoppedNodes(v)[i] = PoppedNodes(v)[j] PROVE i = j
    <2>1. PICK a, b : a = n - i + 1 /\ b = n - j + 1  OBVIOUS
    <2>2. a \in 1 .. n /\ b \in 1 .. n /\ stack[a] = stack[b]  BY <1>16, <1>20, <2>1
    <2>3. ~(a < b) /\ ~(b < a)  BY <1>4, <1>5, <2>2
    <2>. QED  BY <1>3, <1>13, <2>1, <2>2, <2>3
  <1>. QED
    BY <1>2, <1>3, <1>7, <1>8, <1>10, <1>11, <1>17, <1>18, <1>19, <1>20, <1>9

(* What a return does, of the stacks as sets: the component is popped, or  *)
(* its nodes wait for another; the caller, if any, goes on.                *)
Returning(v) ==
    /\ v \in Calls /\ v \in Nodes /\ v \in on_stack /\ v \in Seen
    /\ edge[v] > Len(edges[v])
    /\ \A g \in Calls : index[g] <= index[v] /\ g \in on_stack
    /\ edges' = edges /\ index' = index /\ counter' = counter /\ root' = root
    /\ Seen' = Seen /\ Nodes' = Nodes /\ NotVisited' = NotVisited
    /\ Calls' = Calls \ {v} /\ active' \in Seq(Nodes)
    /\ lowlink' \in [Nodes -> Nat] /\ edge' \in [Nodes -> Nat \ {0}]
    /\ \/ lowlink[v] = index[v] /\ PopComponent(v) /\ on_stack' = on_stack \ Top(v)
       \/ /\ lowlink[v] < index[v] /\ stack' = stack /\ on_stack' = on_stack
          /\ sccs' = sccs

(* The caller p of v. *)
Resumes(p, v) ==
    /\ p \in Calls' /\ p \in Nodes /\ p # v /\ index[p] < index[v]
    /\ \A g \in Calls' : index[g] <= index[p]
    /\ edge[p] \in DOMAIN edges[p] /\ edges[p][edge[p]] = v
    /\ lowlink'[p] = min(lowlink[p], lowlink[v])
    /\ edge'[p] = edge[p] + 1
    /\ \A x \in Nodes : x # p => lowlink'[x] = lowlink[x] /\ edge'[x] = edge[x]

Resumed(v) ==
    \/ Calls' = {} /\ lowlink' = lowlink /\ edge' = edge
    \/ \E p : Resumes(p, v)

LEMMA ReturnFacts ==
    ASSUME ConnectInv, Return
    PROVE  \E v : /\ Returning(v) /\ Resumed(v)
                  /\ active # <<>> /\ active' = Front(active)
  <1>. USE DEF ConnectInv
  <1>1. PICK v \in Nodes :
          /\ active # <<>> /\ v = Last(active)
          /\ edge[v] \notin DOMAIN edges[v]
          /\ \/ lowlink[v] = index[v] /\ PopComponent(v)
             \/ lowlink[v] # index[v] /\ UNCHANGED <<stack, on_stack, sccs>>
          /\ active' = Front(active)
          /\ lowlink' = IF Len(active) = 1 THEN lowlink
                        ELSE [lowlink EXCEPT ![active[Len(active) - 1]] = min(@, lowlink[v])]
          /\ edge' = IF Len(active) = 1 THEN edge
                     ELSE [edge EXCEPT ![active[Len(active) - 1]] = @ + 1]
          /\ UNCHANGED <<edges, index, counter, root, sortVars>>
    BY DEF Return
  <1>2. /\ v \in Calls /\ v \in on_stack /\ v \in Seen
        /\ Len(active) \in Nat \ {0} /\ v = active[Len(active)]
        /\ \A g \in Calls : index[g] <= index[v] /\ g \in on_stack
        /\ \A i \in DOMAIN active : i < Len(active) => index[active[i]] < index[v]
    BY <1>1, LastCall
  <1>3. /\ lowlink \in [Nodes -> Nat] /\ index \in [Nodes -> Nat] /\ edge \in [Nodes -> Nat \ {0}]
        /\ index[v] \in Nat /\ lowlink[v] \in Nat /\ edge[v] \in Nat \ {0}
    BY DEF SccTypes
  <1>4. edge[v] > Len(edges[v])
    <2>1. DOMAIN edges[v] = 1 .. Len(edges[v]) /\ Len(edges[v]) \in Nat  BY SccSizes
    <2>. QED  BY <1>1, <1>3, <2>1
  <1>5. /\ edges' = edges /\ index' = index /\ counter' = counter /\ root' = root
        /\ Seen' = Seen /\ Nodes' = Nodes /\ NotVisited' = NotVisited
    BY <1>1 DEF Seen, Nodes, NotVisited
  <1>6. PICK n : n = Len(active)  OBVIOUS
  <1>7. n \in Nat \ {0} /\ DOMAIN active = 1 .. n  BY <1>2, <1>6, SccSizes
  <1>8. /\ active' \in Seq(Nodes) /\ Len(active') = n - 1 /\ DOMAIN active' = 1 .. n - 1
        /\ \A i \in 1 .. n - 1 : active'[i] = active[i]
    BY <1>1, <1>6, FrontIs DEF SccTypes
  <1>9. Calls' = Calls \ {v}
    <2>1. ASSUME NEW g \in Calls \ {v} PROVE g \in Calls'
      <3>1. PICK i \in 1 .. n : g = active[i]  BY <1>7 DEF Calls, ToSet
      <3>2. i \in 1 .. n - 1  BY <1>2, <1>6, <1>7, <3>1
      <3>. QED  BY <1>8, <3>1, <3>2 DEF Calls, ToSet
    <2>2. ASSUME NEW g \in Calls' PROVE g \in Calls \ {v}
      <3>1. PICK i \in 1 .. n - 1 : g = active[i]  BY <1>8 DEF Calls, ToSet
      <3>2. i \in DOMAIN active /\ i < Len(active)  BY <1>6, <1>7
      <3>3. index[g] < index[v] /\ g \in Calls  BY <1>2, <3>1, <3>2, SccSizes
      <3>. QED  BY <1>3, <3>3
    <2>. QED  BY <2>1, <2>2
  <1>10. lowlink[v] <= index[v]  BY <1>2 DEF LowSound
  <1>11. \/ lowlink[v] = index[v] /\ PopComponent(v) /\ on_stack' = on_stack \ Top(v)
         \/ /\ lowlink[v] < index[v] /\ stack' = stack /\ on_stack' = on_stack
            /\ sccs' = sccs
    <2>1. CASE lowlink[v] = index[v] /\ PopComponent(v)
      <3>1. {stack[i] : i \in Place(v) .. Len(stack)} = Top(v)  BY <1>2, PopFacts
      <3>. QED  BY <2>1, <3>1 DEF PopComponent
    <2>2. CASE lowlink[v] # index[v] /\ UNCHANGED <<stack, on_stack, sccs>>
      BY <1>3, <1>10, <2>2
    <2>. QED  BY <1>1, <2>1, <2>2
  <1>12. CASE n = 1
    <2>1. lowlink' = lowlink /\ edge' = edge  BY <1>1, <1>6, <1>12
    <2>2. Calls' = {}  BY <1>8, <1>12 DEF Calls, ToSet
    <2>3. Returning(v)  BY <1>2, <1>3, <1>4, <1>5, <1>8, <1>9, <1>11, <2>1 DEF Returning
    <2>. QED  BY <1>1, <2>1, <2>2, <2>3 DEF Resumed
  <1>13. CASE n # 1
    <2>1. PICK p : p = active[n - 1]  OBVIOUS
    <2>2. n - 1 \in 1 .. n - 1 /\ n - 1 \in DOMAIN active /\ n - 1 < n /\ n - 1 + 1 = n
      BY <1>7, <1>13
    <2>a. p \in Nodes /\ p \in Calls  BY <2>1, <2>2, SccSizes
    <2>b. index[p] < index[v]  BY <1>2, <1>6, <2>1, <2>2
    <2>3. p \in Nodes /\ p \in Calls /\ index[p] < index[v] /\ p # v
      BY <1>3, <2>a, <2>b
    <2>4. lowlink[p] \in Nat /\ edge[p] \in Nat \ {0} /\ min(lowlink[p], lowlink[v]) \in Nat
      BY <1>3, <2>3 DEF min
    <2>5. /\ lowlink' = [lowlink EXCEPT ![p] = min(lowlink[p], lowlink[v])]
          /\ edge' = [edge EXCEPT ![p] = edge[p] + 1]
      BY <1>1, <1>6, <1>13, <2>1
    <2>6. /\ lowlink' \in [Nodes -> Nat] /\ edge' \in [Nodes -> Nat \ {0}]
          /\ lowlink'[p] = min(lowlink[p], lowlink[v]) /\ edge'[p] = edge[p] + 1
          /\ \A x \in Nodes : x # p => lowlink'[x] = lowlink[x] /\ edge'[x] = edge[x]
      BY <1>3, <2>3, <2>4, <2>5
    <2>7. edge[p] \in DOMAIN edges[p] /\ edges[p][edge[p]] = v
      BY <1>2, <1>6, <2>1, <2>2 DEF InCall
    <2>8. ASSUME NEW g \in Calls' PROVE index[g] <= index[p]
      <3>1. PICK i \in 1 .. n - 1 : g = active[i]  BY <1>8 DEF Calls, ToSet
      <3>a. i \in DOMAIN active  BY <1>7
      <3>b. active[i] \in Nodes  BY <3>a, SccSizes
      <3>2. i \in DOMAIN active /\ index[active[i]] \in Nat  BY <1>3, <3>a, <3>b
      <3>3. CASE i = n - 1  BY <2>1, <3>1, <3>2, <3>3
      <3>4. CASE i < n - 1
        <4>1. index[active[i]] < index[active[n - 1]]  BY <2>2, <3>2, <3>4 DEF InCall
        <4>2. index[p] \in Nat  BY <1>3, <2>3
        <4>. QED  BY <2>1, <3>1, <3>2, <4>1, <4>2
      <3>. QED  BY <1>7, <3>3, <3>4
    <2>9. p \in Calls'  BY <1>9, <2>3
    <2>10. Resumes(p, v)  BY <2>3, <2>6, <2>7, <2>8, <2>9 DEF Resumes
    <2>11. Returning(v)  BY <1>2, <1>3, <1>4, <1>5, <1>8, <1>9, <1>11, <2>6 DEF Returning
    <2>. QED  BY <1>1, <2>10, <2>11 DEF Resumed
  <1>. QED  BY <1>12, <1>13

(* What Returning says of numbers. *)
LEMMA ReturnNumbers ==
    ASSUME ConnectInv, NEW v, Returning(v), Resumed(v)
    PROVE  /\ \A x \in Nodes : /\ index[x] \in Nat /\ lowlink[x] \in Nat /\ lowlink'[x] \in Nat
                               /\ edge[x] \in Nat \ {0} /\ edge'[x] \in Nat \ {0}
                               /\ lowlink'[x] <= lowlink[x] /\ edge[x] <= edge'[x]
           /\ \A x \in Calls : x \in Nodes /\ x \in on_stack /\ x \in Seen
           /\ \A x \in on_stack : x \in Nodes /\ x \in Seen
           /\ \A x \in Calls' : x \in Nodes /\ x \in Calls /\ x # v /\ index[x] < index[v]
           /\ on_stack' \subseteq on_stack
           /\ \A x \in on_stack : index[x] < index[v] => x \in on_stack'
           /\ \A x \in on_stack' : lowlink[v] = index[v] => index[x] < index[v]
           /\ lowlink[v] # index[v] => on_stack' = on_stack
           /\ \A x, y \in Seen : index[x] = index[y] => x = y
  <1>. USE DEF ConnectInv
  <1>1. \A x \in Nodes : /\ index[x] \in Nat /\ lowlink[x] \in Nat /\ lowlink'[x] \in Nat
                        /\ edge[x] \in Nat \ {0} /\ edge'[x] \in Nat \ {0}
    BY DEF SccTypes, Returning
  <1>2. v \in Nodes  BY DEF Returning
  <1>3. \A x \in Nodes : lowlink'[x] <= lowlink[x] /\ edge[x] <= edge'[x]
    <2>1. CASE lowlink' = lowlink /\ edge' = edge  BY <1>1, <2>1
    <2>2. CASE \E p : Resumes(p, v)
      <3>1. PICK p : Resumes(p, v)  BY <2>2
      <3>2. /\ p \in Nodes /\ lowlink'[p] = min(lowlink[p], lowlink[v]) /\ edge'[p] = edge[p] + 1
            /\ \A x \in Nodes : x # p => lowlink'[x] = lowlink[x] /\ edge'[x] = edge[x]
        BY <3>1 DEF Resumes
      <3>3. lowlink'[p] <= lowlink[p] /\ edge[p] <= edge'[p]  BY <1>1, <1>2, <3>2 DEF min
      <3>. QED  BY <1>1, <3>2, <3>3
    <2>. QED  BY <2>1, <2>2 DEF Resumed
  <1>4. \A x \in on_stack : x \in Nodes /\ x \in Seen  BY DEF OnStack, SccTypes
  <1>5. \A x \in Calls : x \in Nodes /\ x \in on_stack /\ x \in Seen  BY <1>4 DEF InCall
  <1>6. \A x, y \in Seen : index[x] = index[y] => x = y  BY DEF Numbered
  <1>7. ASSUME NEW x \in Calls' PROVE x \in Nodes /\ x \in Calls /\ x # v /\ index[x] < index[v]
    <2>1. x \in Calls /\ x # v /\ index[x] <= index[v]  BY DEF Returning
    <2>2. x \in Seen /\ v \in Seen /\ x \in Nodes  BY <1>5, <2>1 DEF Returning
    <2>3. index[x] # index[v]  BY <1>6, <2>1, <2>2
    <2>. QED  BY <1>1, <1>2, <2>1, <2>2, <2>3
  <1>8. CASE lowlink[v] = index[v]
    <2>1. on_stack' = on_stack \ Top(v)  BY <1>1, <1>2, <1>8 DEF Returning
    <2>2. \A x \in on_stack : index[x] < index[v] <=> x \notin Top(v)  BY <1>1, <1>2, <1>4 DEF Top
    <2>. QED  BY <1>1, <1>3, <1>4, <1>5, <1>6, <1>7, <1>8, <2>1, <2>2
  <1>9. CASE lowlink[v] # index[v]
    <2>1. on_stack' = on_stack  BY <1>9 DEF Returning
    <2>. QED  BY <1>1, <1>3, <1>4, <1>5, <1>6, <1>7, <1>9, <2>1
  <1>. QED  BY <1>8, <1>9

LEMMA ReturnLowSound ==
    ASSUME ConnectInv, NEW v, Returning(v), Resumed(v)
    PROVE  LowSound'
  <1>. USE DEF ConnectInv
  <1>0. edges' = edges /\ index' = index /\ v \in Calls /\ v \in Nodes  BY DEF Returning
  <1> SUFFICES ASSUME NEW g \in Calls'
               PROVE  /\ lowlink'[g] <= index[g]
                      /\ \E u \in on_stack' : index[u] = lowlink'[g] /\ Leads(edges, g, u)
    BY <1>0 DEF LowSound
  <1>1. /\ g \in Nodes /\ g \in Calls /\ g # v /\ index[g] < index[v]
        /\ lowlink'[g] <= lowlink[g] /\ lowlink'[g] \in Nat /\ lowlink[g] \in Nat
        /\ index[g] \in Nat /\ index[v] \in Nat /\ lowlink[v] \in Nat
    BY <1>0, ReturnNumbers
  <1>2. lowlink[g] <= index[g]  BY <1>1 DEF LowSound
  <1>3. PICK u \in on_stack : index[u] = lowlink[g] /\ Leads(edges, g, u)  BY <1>1 DEF LowSound
  <1>4. lowlink'[g] <= index[g]  BY <1>1, <1>2
  <1>5. CASE lowlink'[g] = lowlink[g]
    <2>1. index[u] < index[v]  BY <1>1, <1>2, <1>3
    <2>2. u \in on_stack'  BY <2>1, ReturnNumbers
    <2>. QED  BY <1>3, <1>4, <1>5, <2>2
  <1>6. CASE lowlink'[g] # lowlink[g]
    <2>1. PICK p : Resumes(p, v)  BY <1>6 DEF Resumed
    <2>2. g = p /\ lowlink'[g] = lowlink[v]  BY <1>1, <1>6, <2>1 DEF Resumes, min
    <2>3. PICK w \in on_stack : index[w] = lowlink[v] /\ Leads(edges, v, w)  BY <1>0 DEF LowSound
    <2>4. index[w] < index[v]  BY <1>1, <1>4, <2>2, <2>3
    <2>5. w \in on_stack'  BY <2>4, ReturnNumbers
    <2>6. v \in ToSet(edges[p]) /\ p \in Nodes  BY <2>1 DEF Resumes, ToSet
    <2>7. Leads(edges, p, v)  BY <2>6, LeadsEdge DEF Nodes
    <2>8. Leads(edges, g, w)  BY <2>2, <2>3, <2>7, LeadsOn
    <2>. QED  BY <1>4, <2>2, <2>3, <2>5, <2>8
  <1>. QED  BY <1>5, <1>6

LEMMA ReturnStackLeads ==
    ASSUME ConnectInv, NEW v, Returning(v), Resumed(v)
    PROVE  StackLeads'
  <1>. USE DEF ConnectInv
  <1>0. edges' = edges /\ index' = index /\ v \in Calls /\ v \in Nodes /\ on_stack' \subseteq on_stack
    BY ReturnNumbers DEF Returning
  <1>1. \A x, y \in on_stack' : index[x] <= index[y] => Leads(edges, x, y)
    BY <1>0 DEF StackLeads
  <1>2. ASSUME NEW y \in on_stack'
        PROVE  \E g \in Calls' : index[g] <= index[y] /\ Leads(edges, y, g)
    <2>0. y \in on_stack /\ y \in Nodes /\ index[y] \in Nat /\ index[v] \in Nat
      BY <1>0, ReturnNumbers
    <2>1. PICK g \in Calls : index[g] <= index[y] /\ Leads(edges, y, g)  BY <2>0 DEF StackLeads
    <2>2. CASE g # v
      <3>1. g \in Calls'  BY <2>2 DEF Returning
      <3>. QED  BY <2>1, <3>1
    <2>3. CASE g = v
      <3>1. lowlink[v] # index[v]  BY <2>0, <2>1, <2>3, ReturnNumbers
      <3>2. lowlink[v] < index[v]  BY <3>1 DEF Returning
      <3>3. PICK u \in on_stack : index[u] = lowlink[v] /\ Leads(edges, v, u)  BY <1>0 DEF LowSound
      <3>4. PICK h \in Calls : index[h] <= index[u] /\ Leads(edges, u, h)  BY DEF StackLeads
      <3>5. index[h] \in Nat /\ index[u] \in Nat  BY ReturnNumbers
      <3>6. index[h] < index[v] /\ h # v  BY <2>0, <3>2, <3>3, <3>4, <3>5
      <3>7. h \in Calls'  BY <3>6 DEF Returning
      <3>8. Leads(edges, y, h)  BY <2>1, <2>3, <3>3, <3>4, LeadsOn
      <3>9. index[h] <= index[y]  BY <2>0, <2>1, <2>3, <3>5, <3>6
      <3>. QED  BY <3>7, <3>8, <3>9
    <2>. QED  BY <2>2, <2>3
  <1>. QED  BY <1>0, <1>1, <1>2 DEF StackLeads

LEMMA ReturnLowComplete ==
    ASSUME ConnectInv, NEW v, Returning(v), Resumed(v)
    PROVE  LowComplete'
  <1>. USE DEF ConnectInv
  <1>0. edges' = edges /\ index' = index /\ v \in Calls /\ v \in Nodes /\ on_stack' \subseteq on_stack
    BY ReturnNumbers DEF Returning
  <1> SUFFICES ASSUME NEW g \in Calls', NEW y \in on_stack', Owns(g, y)',
                      NEW i \in DOMAIN edges[y], i < edge'[y], edges[y][i] \in on_stack'
               PROVE  lowlink'[g] <= index[edges[y][i]]
    BY <1>0 DEF LowComplete, Followed
  <1>1. PICK t : t = edges[y][i]  OBVIOUS
  <1>2. /\ t \in on_stack' /\ t \in on_stack /\ y \in on_stack /\ y \in Nodes /\ t \in Nodes
        /\ g \in Nodes /\ g \in Calls /\ g # v /\ index[g] < index[v]
    BY <1>0, <1>1, ReturnNumbers
  <1>3. /\ lowlink'[g] <= lowlink[g] /\ lowlink'[g] \in Nat /\ lowlink[g] \in Nat
        /\ index[g] \in Nat /\ index[y] \in Nat /\ index[t] \in Nat /\ index[v] \in Nat
        /\ lowlink[v] \in Nat /\ edge[y] \in Nat /\ edge'[y] \in Nat
    BY <1>0, <1>2, ReturnNumbers
  <1>4. i \in Nat
    <2>1. DOMAIN edges[y] = 1 .. Len(edges[y])  BY <1>2, SccSizes
    <2>. QED  BY <2>1
  <1>5. /\ index[g] <= index[y]
        /\ \A h \in Calls' : index[h] <= index[y] => index[h] <= index[g]
    BY <1>0 DEF Owns
  <1>6. PICK p : Resumes(p, v)  BY DEF Resumed
  <1>7. /\ p \in Calls' /\ p \in Nodes /\ p # v /\ index[p] < index[v] /\ index[g] <= index[p]
        /\ index[p] \in Nat /\ lowlink[p] \in Nat
        /\ lowlink'[p] = min(lowlink[p], lowlink[v]) /\ edge'[p] = edge[p] + 1
        /\ \A x \in Nodes : x # p => lowlink'[x] = lowlink[x] /\ edge'[x] = edge[x]
        /\ edges[p][edge[p]] = v
    <2>1. p \in Nodes  BY <1>6 DEF Resumes
    <2>2. index[p] \in Nat /\ lowlink[p] \in Nat  BY <2>1, ReturnNumbers
    <2>. QED  BY <1>6, <2>2 DEF Resumes
  <1>8. lowlink'[p] <= lowlink[v]  BY <1>3, <1>7 DEF min
  <1>9. lowlink[v] <= index[v]  BY <1>0 DEF LowSound
  <1>10. index[p] <= index[y] => g = p
    <2> SUFFICES ASSUME index[p] <= index[y] PROVE g = p
      OBVIOUS
    <2>1. index[p] = index[g]  BY <1>3, <1>5, <1>7
    <2>2. p \in Seen /\ g \in Seen  BY <1>2, <1>7, ReturnNumbers
    <2>. QED  BY <2>1, <2>2 DEF Numbered
  <1>11. CASE i < edge[y]
    <2>1. CASE Owns(g, y)
      <3>1. lowlink[g] <= index[t]  BY <1>1, <1>2, <1>11, <2>1 DEF LowComplete, Followed
      <3>. QED  BY <1>1, <1>3, <3>1
    <2>2. CASE ~Owns(g, y)
      <3>1. PICK h \in Calls : index[h] <= index[y] /\ ~(index[h] <= index[g])
        BY <1>5, <2>2 DEF Owns
      <3>2. h = v  BY <1>5, <3>1 DEF Returning
      <3>3. index[v] <= index[y] /\ Owns(v, y)  BY <3>1, <3>2 DEF Owns, Returning
      <3>4. lowlink[v] <= index[t]  BY <1>0, <1>1, <1>2, <1>11, <3>3 DEF LowComplete, Followed
      <3>5. g = p  BY <1>3, <1>7, <1>10, <3>3
      <3>6. lowlink'[p] \in Nat  BY <1>3, <3>5
      <3>. QED  BY <1>1, <1>3, <1>8, <3>4, <3>5, <3>6
    <2>. QED  BY <2>1, <2>2
  <1>12. CASE ~(i < edge[y])
    <2>1. y = p /\ i = edge[p]  BY <1>2, <1>3, <1>4, <1>7, <1>12
    <2>2. t = v /\ g = p  BY <1>1, <1>7, <1>10, <2>1
    <2>3. lowlink'[p] \in Nat  BY <1>3, <2>2
    <2>. QED  BY <1>1, <1>3, <1>8, <1>9, <2>2, <2>3
  <1>. QED  BY <1>11, <1>12

(* A node that is popped is finished, and leads to itself and to           *)
(* components only.                                                        *)
LEMMA TopFinished ==
    ASSUME ConnectInv, NEW v, Returning(v), lowlink[v] = index[v],
           NEW x \in Top(v), NEW w \in ToSet(edges[x])
    PROVE  w \in Top(v) \/ \E t \in DOMAIN sccs : InScc(t, w)
  <1>. USE DEF ConnectInv
  <1>1. /\ v \in Calls /\ v \in Nodes /\ v \in Seen /\ edge[v] > Len(edges[v])
        /\ \A g \in Calls : index[g] <= index[v]
    BY DEF Returning
  <1>2. x \in on_stack /\ index[v] <= index[x] /\ x \in Nodes /\ x \in Seen
    BY DEF Top, OnStack, SccTypes
  <1>3. index[x] \in Nat /\ index[v] \in Nat /\ edge[x] \in Nat  BY <1>1, <1>2 DEF SccTypes
  <1>4. edge[x] > Len(edges[x])
    <2>1. CASE x = v  BY <1>1, <2>1
    <2>2. CASE x # v
      <3>1. index[x] # index[v]  BY <1>1, <1>2, <2>2 DEF Numbered
      <3>2. x \notin Calls  BY <1>1, <1>2, <1>3, <3>1
      <3>. QED  BY <1>2, <3>2 DEF Progressed
    <2>. QED  BY <2>1, <2>2
  <1>5. DOMAIN edges[x] = 1 .. Len(edges[x]) /\ Len(edges[x]) \in Nat  BY <1>2, SccSizes
  <1>6. PICK i \in DOMAIN edges[x] : w = edges[x][i]  BY DEF ToSet
  <1>7. Followed(x, i)  BY <1>3, <1>4, <1>5 DEF Followed
  <1>8. w \in Seen  BY <1>2, <1>6, <1>7 DEF Progressed
  <1>9. CASE w \in on_stack
    <2>1. Owns(v, x)  BY <1>1, <1>2 DEF Owns
    <2>2. lowlink[v] <= index[w]  BY <1>1, <1>2, <1>6, <1>7, <1>9, <2>1 DEF LowComplete
    <2>. QED  BY <1>9, <2>2 DEF Top
  <1>10. CASE w \notin on_stack
    <2>1. w \in Nodes  BY <1>8, SccSizes
    <2>. QED  BY <1>8, <1>10, <2>1 DEF Components
  <1>. QED  BY <1>9, <1>10

(* ... and the nodes that are popped lead to each other. *)
LEMMA TopLeads ==
    ASSUME ConnectInv, NEW v, Returning(v), NEW x \in Top(v), NEW y \in Top(v)
    PROVE  Leads(edges, x, y)
  <1>. USE DEF ConnectInv
  <1>1. /\ v \in on_stack /\ \A g \in Calls : index[g] <= index[v] /\ g \in on_stack
    BY DEF Returning
  <1>2. x \in on_stack /\ y \in on_stack /\ index[v] <= index[y]  BY DEF Top
  <1>3. PICK g \in Calls : Leads(edges, x, g)  BY <1>2 DEF StackLeads
  <1>4. Leads(edges, g, v) /\ Leads(edges, v, y)  BY <1>1, <1>2 DEF StackLeads
  <1>. QED  BY <1>3, <1>4, LeadsOn

LEMMA ReturnComponents ==
    ASSUME ConnectInv, NEW v, Returning(v), Resumed(v)
    PROVE  /\ Components' /\ OnStack'
           /\ stack' \in Seq(Nodes) /\ sccs' \in Seq(Seq(Nodes)) /\ on_stack' \in SUBSET Nodes
  <1>. USE DEF ConnectInv
  <1>1. edges' = edges /\ index' = index /\ Seen' = Seen /\ Nodes' = Nodes /\ v \in on_stack
    BY DEF Returning
  <1>2. on_stack \in SUBSET Nodes /\ on_stack \subseteq Seen /\ sccs \in Seq(Seq(Nodes))
        /\ index \in [Nodes -> Nat] /\ stack \in Seq(Nodes)
    BY DEF SccTypes, OnStack
  <1>3. CASE lowlink[v] # index[v]
    <2>1. stack' = stack /\ on_stack' = on_stack /\ sccs' = sccs  BY <1>3 DEF Returning
    <2>2. Components'  BY <1>1, <2>1 DEF Components, InScc
    <2>3. OnStack'  BY <1>1, <2>1 DEF OnStack
    <2>. QED  BY <1>2, <2>1, <2>2, <2>3
  <1>4. CASE lowlink[v] = index[v]
    <2>1. PopComponent(v) /\ on_stack' = on_stack \ Top(v)
      BY <1>1, <1>2, <1>4 DEF Returning
    <2>2. PICK c : c = PoppedNodes(v)  OBVIOUS
    <2>3. PICK k : k = Place(v) - 1  OBVIOUS
    <2>4. /\ Place(v) \in 1 .. Len(stack)
          /\ SubSeq(stack, 1, Place(v) - 1) \in Seq(Nodes)
          /\ Len(SubSeq(stack, 1, Place(v) - 1)) = Place(v) - 1
          /\ \A i \in 1 .. Place(v) - 1 : SubSeq(stack, 1, Place(v) - 1)[i] = stack[i]
          /\ ToSet(SubSeq(stack, 1, Place(v) - 1)) = on_stack \ Top(v)
      BY <1>1, PopFacts
    <2>5. /\ stack' \in Seq(Nodes) /\ Len(stack') = k /\ ToSet(stack') = on_stack'
          /\ \A i \in 1 .. k : stack'[i] = stack[i]
          /\ k \in Nat /\ k < Len(stack) /\ Len(stack) \in Nat
      BY <1>2, <2>1, <2>3, <2>4 DEF PopComponent
    <2>6. OnStack'
      <3>1. ASSUME NEW i \in DOMAIN stack', NEW j \in DOMAIN stack', i < j
            PROVE  index[stack'[i]] < index[stack'[j]]
        <4>1. i \in 1 .. k /\ j \in 1 .. k  BY <2>5
        <4>2. i \in DOMAIN stack /\ j \in DOMAIN stack  BY <1>2, <2>5, <4>1
        <4>. QED  BY <2>5, <3>1, <4>1, <4>2 DEF OnStack
      <3>. QED  BY <1>1, <1>2, <2>1, <2>5, <3>1 DEF OnStack
    <2>7. /\ c \in Seq(Nodes) /\ c # <<>> /\ ToSet(c) = Top(v)
          /\ \A i, j \in DOMAIN c : c[i] = c[j] => i = j
      BY <1>1, <2>2, PopFacts
    <2>8. sccs' = Append(sccs, c)  BY <2>1, <2>2 DEF PopComponent, PoppedNodes
    <2>9. PICK n : n = Len(sccs)  OBVIOUS
    <2>10. /\ sccs' \in Seq(Seq(Nodes)) /\ n \in Nat /\ DOMAIN sccs = 1 .. n
           /\ DOMAIN sccs' = 1 .. n + 1 /\ \A s \in 1 .. n : sccs'[s] = sccs[s]
           /\ sccs'[n + 1] = c
      BY <1>2, <2>7, <2>8, <2>9, AppendIs
    <2>11. /\ \A s \in 1 .. n : \A x : InScc(s, x)' <=> InScc(s, x)
           /\ \A x : InScc(n + 1, x)' <=> x \in Top(v)
      BY <2>7, <2>10 DEF InScc
    <2>12. ASSUME NEW s \in 1 .. n, NEW x \in ToSet(sccs[s])
           PROVE  x \in Nodes /\ x \in Seen /\ x \notin on_stack /\ x \notin Top(v)
      <3>1. sccs[s] \in Seq(Nodes)  BY <1>2, <2>10
      <3>2. x \in Nodes  BY <3>1 DEF ToSet
      <3>3. InScc(s, x)  BY <2>10 DEF InScc
      <3>. QED  BY <2>10, <3>2, <3>3 DEF Components, Top
    <2>13. ASSUME NEW x \in Nodes
           PROVE  x \in Seen \ on_stack' <=> \E s \in DOMAIN sccs' : InScc(s, x)'
      <3>1. x \in Seen \ on_stack' <=> x \in Seen \ on_stack \/ x \in Top(v)
        BY <1>2, <2>1 DEF Top
      <3>2. x \in Seen \ on_stack <=> \E s \in 1 .. n : InScc(s, x)  BY <2>10 DEF Components
      <3>3. (\E s \in DOMAIN sccs' : InScc(s, x)')
              <=> (\E s \in 1 .. n : InScc(s, x)) \/ x \in Top(v)
        <4>1. \A s \in DOMAIN sccs' : s \in 1 .. n \/ s = n + 1  BY <2>10
        <4>2. \A s \in 1 .. n : s \in DOMAIN sccs'  BY <2>10
        <4>3. n + 1 \in DOMAIN sccs'  BY <2>10
        <4>. QED  BY <2>11, <4>1, <4>2, <4>3
      <3>. QED  BY <3>1, <3>2, <3>3
    <2>14. \A s \in DOMAIN sccs' : sccs'[s] # <<>>  BY <2>7, <2>10 DEF Components
    <2>15. ASSUME NEW s \in DOMAIN sccs', NEW t \in DOMAIN sccs',
                  NEW i \in DOMAIN sccs'[s], NEW j \in DOMAIN sccs'[t], sccs'[s][i] = sccs'[t][j]
           PROVE  s = t /\ i = j
      <3>1. CASE s \in 1 .. n /\ t \in 1 .. n
        <4>1. sccs'[s] = sccs[s] /\ sccs'[t] = sccs[t]  BY <2>10, <3>1
        <4>. QED  BY <2>10, <2>15, <3>1, <4>1 DEF Components
      <3>2. CASE s = n + 1 /\ t = n + 1  BY <2>7, <2>10, <2>15, <3>2
      <3>3. CASE s \in 1 .. n /\ t = n + 1
        <4>1. sccs[s][i] \in ToSet(sccs[s]) /\ c[j] \in Top(v) /\ sccs[s][i] = c[j]
          BY <2>7, <2>10, <2>15, <3>3 DEF ToSet
        <4>. QED  BY <2>12, <3>3, <4>1
      <3>4. CASE s = n + 1 /\ t \in 1 .. n
        <4>1. sccs[t][j] \in ToSet(sccs[t]) /\ c[i] \in Top(v) /\ sccs[t][j] = c[i]
          BY <2>7, <2>10, <2>15, <3>4 DEF ToSet
        <4>. QED  BY <2>12, <3>4, <4>1
      <3>. QED  BY <2>10, <3>1, <3>2, <3>3, <3>4
    <2>16. ASSUME NEW s \in DOMAIN sccs', NEW x \in ToSet(sccs'[s]), NEW y \in ToSet(sccs'[s])
           PROVE  Leads(edges, x, y)
      <3>1. CASE s \in 1 .. n  BY <2>10, <3>1 DEF Components
      <3>2. CASE s = n + 1  BY <2>7, <2>10, <3>2, TopLeads
      <3>. QED  BY <2>10, <3>1, <3>2
    <2>17. ASSUME NEW s \in DOMAIN sccs', NEW x \in ToSet(sccs'[s]), NEW w \in ToSet(edges[x])
           PROVE  \E t \in 1 .. s : InScc(t, w)'
      <3>1. CASE s \in 1 .. n
        <4>1. PICK t \in 1 .. s : InScc(t, w)  BY <2>10, <3>1 DEF Components
        <4>2. t \in 1 .. n  BY <2>10, <3>1
        <4>. QED  BY <2>11, <4>1, <4>2
      <3>2. CASE s = n + 1
        <4>1. x \in Top(v)  BY <2>7, <2>10, <3>2
        <4>2. CASE w \in Top(v)
          <5>1. InScc(n + 1, w)' /\ n + 1 \in 1 .. s  BY <2>10, <2>11, <3>2, <4>2
          <5>. QED  BY <5>1
        <4>3. CASE \E t \in DOMAIN sccs : InScc(t, w)
          <5>1. PICK t \in 1 .. n : InScc(t, w)  BY <2>10, <4>3
          <5>2. t \in 1 .. s  BY <2>10, <3>2
          <5>. QED  BY <2>11, <5>1, <5>2
        <4>. QED  BY <1>4, <4>1, <4>2, <4>3, TopFinished
      <3>. QED  BY <2>10, <3>1, <3>2
    <2>18. Components'
      BY <1>1, <2>13, <2>14, <2>15, <2>16, <2>17 DEF Components
    <2>. QED  BY <1>2, <2>1, <2>5, <2>6, <2>10, <2>18
  <1>. QED  BY <1>3, <1>4

LEMMA ReturnKeeps == ASSUME ConnectInv, Return PROVE ConnectInv'
  <1>. USE DEF ConnectInv
  <1>1. PICK v : Returning(v) /\ Resumed(v) /\ active # <<>> /\ active' = Front(active)
    BY ReturnFacts
  <1>2. /\ edges' = edges /\ index' = index /\ counter' = counter /\ root' = root
        /\ Seen' = Seen /\ Nodes' = Nodes /\ NotVisited' = NotVisited
        /\ Calls' = Calls \ {v} /\ active' \in Seq(Nodes)
        /\ lowlink' \in [Nodes -> Nat] /\ edge' \in [Nodes -> Nat \ {0}]
        /\ v \in Nodes /\ v \in Seen
    BY <1>1 DEF Returning
  <1>3. /\ Components' /\ OnStack'
        /\ stack' \in Seq(Nodes) /\ sccs' \in Seq(Seq(Nodes)) /\ on_stack' \in SUBSET Nodes
    BY <1>1, ReturnComponents
  <1>4. LowSound' /\ StackLeads' /\ LowComplete'
    BY <1>1, ReturnLowSound, ReturnStackLeads, ReturnLowComplete
  <1>5. SccTypes'  BY <1>2, <1>3 DEF SccTypes
  <1>6. Numbered'  BY <1>2 DEF Numbered
  <1>7. \A x \in Calls' : x \in Nodes /\ x \in on_stack' /\ index[x] < index[v]
    BY <1>1, ReturnNumbers
  <1>8. PICK n : n = Len(active)  OBVIOUS
  <1>9. /\ n \in Nat \ {0} /\ DOMAIN active = 1 .. n
        /\ Len(active') = n - 1 /\ DOMAIN active' = 1 .. n - 1
        /\ \A i \in 1 .. n - 1 : active'[i] = active[i]
    <2>1. active \in Seq(Nodes)  BY DEF SccTypes
    <2>2. n \in Nat \ {0}  BY <1>1, <1>8, <2>1, LastIs
    <2>. QED  BY <1>1, <1>8, <2>1, <2>2, FrontIs
  <1>10. InCall'
    <2>1. ASSUME NEW i \in 1 .. n - 1, NEW j \in 1 .. n - 1, i < j
          PROVE  index[active'[i]] < index[active'[j]]
      <3>1. i \in DOMAIN active /\ j \in DOMAIN active  BY <1>9
      <3>. QED  BY <1>9, <2>1, <3>1 DEF InCall
    <2>2. ASSUME NEW i \in 1 .. n - 1, i < n - 1
          PROVE  /\ edge'[active'[i]] \in DOMAIN edges[active'[i]]
                 /\ edges[active'[i]][edge'[active'[i]]] = active'[i + 1]
      <3>1. i \in DOMAIN active /\ i < Len(active) /\ i + 1 \in 1 .. n - 1  BY <1>8, <1>9, <2>2
      <3>2. active'[i] = active[i] /\ active'[i + 1] = active[i + 1]  BY <1>9, <3>1
      <3>3. index[active'[i]] < index[active'[i + 1]]  BY <1>9, <2>1, <3>1
      <3>4. active'[i + 1] \in Calls' /\ active'[i] \in Calls'  BY <1>9, <3>1 DEF Calls, ToSet
      <3>5. PICK p : Resumes(p, v)  BY <1>1, <3>4 DEF Resumed
      <3>6. active'[i] # p
        <4>1. index[active'[i + 1]] <= index[p]  BY <3>4, <3>5 DEF Resumes
        <4>2. index[active'[i]] \in Nat /\ index[active'[i + 1]] \in Nat  BY <1>7, <3>4 DEF SccTypes
        <4>. QED  BY <3>3, <4>1, <4>2
      <3>7. edge'[active'[i]] = edge[active'[i]]  BY <1>7, <3>4, <3>5, <3>6 DEF Resumes
      <3>. QED  BY <3>1, <3>2, <3>7 DEF InCall
    <2>3. Calls' \subseteq on_stack'  BY <1>7
    <2>. QED  BY <1>2, <1>9, <2>1, <2>2, <2>3 DEF InCall
  <1>11. Progressed'
    <2>0. \A x \in Nodes : /\ edge[x] \in Nat /\ edge'[x] \in Nat /\ edge[x] <= edge'[x]
                          /\ Len(edges[x]) \in Nat
      BY <1>1, ReturnNumbers, SccSizes
    <2>1. ASSUME NEW x \in Nodes, edge'[x] # edge[x]
          PROVE  x \in Calls' /\ Resumes(x, v)
      <3>1. PICK p : Resumes(p, v)  BY <1>1, <2>1 DEF Resumed
      <3>2. x = p  BY <2>1, <3>1 DEF Resumes
      <3>. QED  BY <3>1, <3>2 DEF Resumes
    <2>2. \A x \in Nodes \ Seen : edge'[x] = 1
      BY <1>1, <2>1, ReturnNumbers DEF Progressed
    <2>3. ASSUME NEW x \in Seen \ Calls' PROVE edge'[x] > Len(edges[x])
      <3>1. x \in Nodes /\ edge'[x] = edge[x]  BY <2>1, SccSizes
      <3>2. CASE x = v  BY <1>1, <3>1, <3>2 DEF Returning
      <3>3. CASE x # v  BY <1>2, <3>1, <3>3 DEF Progressed
      <3>. QED  BY <3>2, <3>3
    <2>4. ASSUME NEW x \in Seen, NEW i \in DOMAIN edges[x], i < edge'[x] PROVE edges[x][i] \in Seen
      <3>1. x \in Nodes  BY SccSizes
      <3>2. DOMAIN edges[x] = 1 .. Len(edges[x])  BY <3>1, SccSizes
      <3>3. CASE i < edge[x]  BY <3>3 DEF Progressed, Followed
      <3>4. CASE ~(i < edge[x])
        <4>1. edge'[x] # edge[x]  BY <2>4, <3>4
        <4>2. edge'[x] = edge[x] + 1 /\ edges[x][edge[x]] = v  BY <2>1, <3>1, <4>1 DEF Resumes
        <4>3. i = edge[x]  BY <2>0, <2>4, <3>1, <3>2, <3>4, <4>2
        <4>. QED  BY <1>2, <4>2, <4>3
      <3>. QED  BY <3>3, <3>4
    <2>. QED  BY <1>2, <2>2, <2>3, <2>4 DEF Progressed, Followed
  <1>. QED  BY <1>3, <1>4, <1>5, <1>6, <1>10, <1>11

-----------------------------------------------------------------------------
(* compute_sccs as a whole.                                                *)

LEMMA ComputeKeeps == ASSUME ConnectInv, compute_sccs PROVE ConnectInv'
  BY VisitRootKeeps, SkipRootKeeps, CallKeeps, LookKeeps, ReturnKeeps DEF compute_sccs

LEMMA ConnectFrozen ==
    ASSUME ConnectInv, edges' = edges, UNCHANGED connectVars
    PROVE  ConnectInv'
  <1>. USE DEF ConnectInv, connectVars
  <1>1. Seen' = Seen /\ Calls' = Calls /\ Nodes' = Nodes /\ NotVisited' = NotVisited
    BY DEF Seen, Calls, Nodes, NotVisited
  <1>2. SccTypes' /\ Numbered'  BY <1>1 DEF SccTypes, Numbered
  <1>3. OnStack' /\ InCall' /\ Progressed'
    BY <1>1 DEF OnStack, InCall, Progressed, Followed
  <1>4. LowSound' /\ StackLeads'  BY <1>1 DEF LowSound, StackLeads
  <1>5. LowComplete'  BY <1>1 DEF LowComplete, Owns, Followed
  <1>6. Components'  BY <1>1 DEF Components, InScc
  <1>. QED  BY <1>2, <1>3, <1>4, <1>5, <1>6

(* Nothing was run: the invariants hold. *)
LEMMA FreshInv ==
    ASSUME NEW es, es \in Seq(Seq(DOMAIN es)), Fresh(es)
    PROVE  ConnectInv' /\ SortInv'
  <1>1. /\ edges' = es /\ index' = [v \in DOMAIN es |-> Len(es)]
        /\ lowlink' = [v \in DOMAIN es |-> Len(es)] /\ edge' = [v \in DOMAIN es |-> 1]
        /\ on_stack' = {} /\ stack' = <<>> /\ counter' = 0 /\ sccs' = <<>>
        /\ root' = 1 /\ active' = <<>>
        /\ sort_root' = 1 /\ sorting' = <<>> /\ visited' = {} /\ sorted' = <<>>
    BY DEF Fresh
  <1>2. Nodes' = DOMAIN es /\ Len(es) \in Nat /\ DOMAIN es = 1 .. Len(es)  BY <1>1 DEF Nodes
  <1>3. Seen' = {} /\ Calls' = {}  BY <1>1, <1>2 DEF Seen, NotVisited, Calls, ToSet
  <1>4. SccTypes'
    <2>1. counter' = Cardinality(Seen')  BY <1>1, <1>3, FS_EmptySet
    <2>2. index' \in [Nodes' -> Nat] /\ lowlink' \in [Nodes' -> Nat] /\ edge' \in [Nodes' -> Nat \ {0}]
      BY <1>1, <1>2
    <2>3. root' \in 1 .. Len(edges') + 1  BY <1>1, <1>2
    <2>4. edges' \in Seq(Seq(Nodes'))  BY <1>1, <1>2
    <2>. QED  BY <1>1, <2>1, <2>2, <2>3, <2>4 DEF SccTypes
  <1>5. Numbered'
    <2>1. \A v \in Nodes' : ~(v < 1)  BY <1>2
    <2>. QED  BY <1>1, <1>3, <2>1 DEF Numbered
  <1>6. OnStack' /\ InCall'  BY <1>1, <1>3 DEF OnStack, InCall, ToSet
  <1>7. Progressed'  BY <1>1, <1>2, <1>3 DEF Progressed
  <1>8. LowSound' /\ StackLeads' /\ LowComplete'
    BY <1>1, <1>3 DEF LowSound, StackLeads, LowComplete
  <1>9. Components'  BY <1>1, <1>3 DEF Components
  <1>10. SortInv'
    <2>1. 1 .. 1 - 1 = {} /\ 1 - 1 = 0  OBVIOUS
    <2>. QED  BY <1>1, <2>1 DEF SortInv
  <1>. QED  BY <1>4, <1>5, <1>6, <1>7, <1>8, <1>9, <1>10 DEF ConnectInv

(* When it has run, every node is in a component, and leads out of it only *)
(* to components with a lower number.                                      *)
LEMMA HasRun ==
    ASSUME ConnectInv, has_run, NEW v \in Nodes
    PROVE  /\ mapping(v) \in DOMAIN sccs /\ v \in ToSet(sccs[mapping(v)])
           /\ \A s \in DOMAIN sccs : v \in ToSet(sccs[s]) => s = mapping(v)
  <1>. USE DEF ConnectInv
  <1>1. Calls = {}  BY DEF has_run, Calls, ToSet
  <1>2. v \in Seen
    <2>1. root \notin 1 .. Len(edges) /\ root \in 1 .. Len(edges) + 1 /\ v \in 1 .. Len(edges)
          /\ Len(edges) \in Nat
      BY SccSizes DEF has_run, SccTypes
    <2>2. v < root  BY <2>1
    <2>. QED  BY <2>2 DEF Numbered
  <1>3. v \notin on_stack  BY <1>1 DEF StackLeads
  <1>4. PICK s \in DOMAIN sccs : v \in ToSet(sccs[s])  BY <1>2, <1>3 DEF Components, InScc
  <1>5. mapping(v) \in DOMAIN sccs /\ v \in ToSet(sccs[mapping(v)])  BY <1>4 DEF mapping
  <1>6. ASSUME NEW t \in DOMAIN sccs, v \in ToSet(sccs[t]) PROVE t = mapping(v)
    <2>1. PICK i \in DOMAIN sccs[t] : v = sccs[t][i]  BY <1>6 DEF ToSet
    <2>2. PICK j \in DOMAIN sccs[mapping(v)] : v = sccs[mapping(v)][j]  BY <1>5 DEF ToSet
    <2>. QED  BY <1>5, <2>1, <2>2 DEF Components
  <1>. QED  BY <1>5, <1>6

LEMMA EdgesGoDown ==
    ASSUME ConnectInv, has_run, NEW v \in Nodes, NEW w \in ToSet(edges[v])
    PROVE  w \in Nodes /\ mapping(w) <= mapping(v)
  <1>. USE DEF ConnectInv
  <1>1. w \in Nodes  BY SccSizes DEF ToSet
  <1>2. mapping(v) \in DOMAIN sccs /\ v \in ToSet(sccs[mapping(v)])  BY HasRun
  <1>3. PICK t \in 1 .. mapping(v) : InScc(t, w)  BY <1>2 DEF Components
  <1>4. t = mapping(w)  BY <1>1, <1>3, HasRun DEF InScc
  <1>5. DOMAIN sccs = 1 .. Len(sccs)  BY DEF SccTypes
  <1>. QED  BY <1>1, <1>2, <1>3, <1>4, <1>5

-----------------------------------------------------------------------------
(* sort_sccs.                                                              *)

LEMMA ComputeKeepsSort == ASSUME ConnectInv, SortInv, compute_sccs PROVE SortInv'
  <1>1. ~has_run
    BY DEF compute_sccs, VisitRoot, SkipRoot, Call, Look, Return, Following, has_run
  <1>2. sort_root = 1 /\ visited = {} /\ sorted \in Seq(Nodes)  BY <1>1 DEF SortInv
  <1>3. Len(sorted) = 0 /\ sorting = <<>> /\ sorted = <<>>
    <2>1. Len(sorted) \in Nat  BY <1>2
    <2>2. Len(sorted) = 0 /\ sorting = <<>>  BY <1>2, <2>1 DEF SortInv
    <2>. QED  BY <1>2, <2>2
  <1>4. UNCHANGED sortVars
    BY DEF compute_sccs, VisitRoot, SkipRoot, Call, Look, Return, Enter
  <1>5. sort_root' = 1 /\ visited' = {} /\ sorting' = <<>> /\ sorted' = <<>>
    BY <1>2, <1>3, <1>4 DEF sortVars
  <1>6. Len(sccs') \in Nat
    <2>1. ConnectInv'  BY ComputeKeeps
    <2>2. sccs' \in Seq(Seq(Nodes'))  BY <2>1 DEF ConnectInv, SccTypes
    <2>. QED  BY <2>2
  <1>7. 1 .. 1 - 1 = {} /\ 1 - 1 = 0  OBVIOUS
  <1>. QED  BY <1>5, <1>6, <1>7 DEF SortInv

LEMMA SortRootKeeps == ASSUME ConnectInv, SortInv, sort_sccs PROVE SortInv'
  <1>. USE DEF ConnectInv
  <1>1. Len(sccs) \in Nat /\ DOMAIN sccs = 1 .. Len(sccs)  BY DEF SccTypes
  <1>2. /\ has_run /\ sorting = <<>> /\ sort_root \in 1 .. Len(sccs) /\ visited = 1 .. sort_root - 1
        /\ sorted \in Seq(Nodes) /\ \A s \in DOMAIN sorted : sorted[s] = rep(s)
    BY <1>1 DEF SortInv, sort_sccs
  <1>3. Len(sorted) = sort_root - 1
    <2>1. \A x : <<x>> # <<>>  OBVIOUS
    <2>. QED  BY <1>2, <2>1 DEF SortInv
  <1>4. sort_root \notin visited  BY <1>2
  <1>5. /\ edges' = edges /\ sccs' = sccs /\ active' = active /\ root' = root /\ sorted' = sorted
        /\ sort_root' = sort_root + 1 /\ visited' = visited \cup {sort_root}
        /\ sorting' = <<sort_root>>
    BY <1>4 DEF sort_sccs, connectVars
  <1>6. has_run' /\ Nodes' = Nodes  BY <1>2, <1>5 DEF has_run, Nodes
  <1>7. /\ sort_root' \in 1 .. Len(sccs') + 1 /\ visited' = 1 .. sort_root' - 1
        /\ sorting' = <<sort_root' - 1>> /\ Len(sorted') = sort_root' - 2
    <2>1. sort_root' - 1 = sort_root  BY <1>2, <1>5
    <2>. QED  BY <1>1, <1>2, <1>3, <1>5, <2>1
  <1>8. sorted' \in Seq(Nodes') /\ \A s \in DOMAIN sorted' : sorted'[s] = rep(s)'
    BY <1>2, <1>5, <1>6 DEF rep
  <1>. QED  BY <1>6, <1>7, <1>8 DEF SortInv

LEMMA SortNodeKeeps == ASSUME ConnectInv, SortInv, sort_sccs_node PROVE SortInv'
  <1>. USE DEF ConnectInv
  <1>1. /\ sccs \in Seq(Seq(Nodes)) /\ Len(sccs) \in Nat /\ DOMAIN sccs = 1 .. Len(sccs)
        /\ sorted \in Seq(Nodes) /\ Len(sorted) \in Nat
    BY DEF SccTypes, SortInv
  <1>2. PICK s : s = sort_root - 1  OBVIOUS
  <1>3. sorting = <<s>> /\ Len(sorted) = sort_root - 2  BY <1>2 DEF SortInv, sort_sccs_node
  <1>4. /\ sort_root \in 1 .. Len(sccs) + 1 /\ visited = 1 .. s
        /\ \A t \in DOMAIN sorted : sorted[t] = rep(t)
    BY <1>2 DEF SortInv
  <1>5. s \in 1 .. Len(sccs) /\ Len(sorted) = s - 1 /\ sort_root = s + 1  BY <1>1, <1>2, <1>3, <1>4
  <1>6. has_run
    <2>1. sort_root # 1  BY <1>5
    <2>. QED  BY <2>1 DEF SortInv
  <1>7. ASSUME NEW p \in SccEdges(s) PROVE SccTarget(s, p) \in visited
    <2>1. PICK i \in DOMAIN sccs[s] : p \in {i} \X DOMAIN edges[sccs[s][i]]  BY DEF SccEdges
    <2>2. PICK v : v = sccs[s][i]  OBVIOUS
    <2>3. sccs[s] \in Seq(Nodes)  BY <1>1, <1>5
    <2>4. v \in Nodes /\ v \in ToSet(sccs[s])  BY <2>1, <2>2, <2>3 DEF ToSet
    <2>5. p[1] = i /\ p[2] \in DOMAIN edges[v]  BY <2>1, <2>2
    <2>6. PICK w : w = edges[v][p[2]]  OBVIOUS
    <2>7. w \in ToSet(edges[v]) /\ SccTarget(s, p) = mapping(w)
      BY <2>2, <2>5, <2>6 DEF ToSet, SccTarget
    <2>8. s = mapping(v)  BY <1>1, <1>5, <1>6, <2>4, HasRun
    <2>9. w \in Nodes /\ mapping(w) <= mapping(v)  BY <1>6, <2>4, <2>7, EdgesGoDown
    <2>10. mapping(w) \in 1 .. Len(sccs)  BY <1>1, <1>6, <2>9, HasRun
    <2>. QED  BY <1>4, <1>5, <2>7, <2>8, <2>9, <2>10
  <1>8. Last(sorting) = s /\ Front(sorting) = <<>>
    <2>1. Len(<<s>>) = 1 /\ <<s>>[1] = s  OBVIOUS
    <2>2. SubSeq(<<s>>, 1, 0) = <<>>  BY SubSeqEmpty
    <2>. QED  BY <1>3, <2>1, <2>2 DEF Last, Front
  <1>9. {p \in SccEdges(s) : SccTarget(s, p) \notin visited} = {}  BY <1>7
  <1>10. /\ edges' = edges /\ sccs' = sccs /\ active' = active /\ root' = root
         /\ sort_root' = sort_root /\ visited' = visited
         /\ sorting' = <<>> /\ sorted' = Append(sorted, rep(s))
    BY <1>8, <1>9 DEF sort_sccs_node, connectVars
  <1>11. has_run' /\ Nodes' = Nodes  BY <1>6, <1>10 DEF has_run, Nodes
  <1>12. rep(s) \in Nodes
    <2>1. sccs[s] \in Seq(Nodes) /\ sccs[s] # <<>>  BY <1>1, <1>5 DEF Components
    <2>. QED  BY <2>1 DEF rep
  <1>13. /\ sorted' \in Seq(Nodes) /\ Len(sorted') = s /\ DOMAIN sorted' = 1 .. s
         /\ \A t \in 1 .. s - 1 : sorted'[t] = sorted[t]
         /\ sorted'[s] = rep(s)
    <2>1. Len(sorted) + 1 = s  BY <1>1, <1>5
    <2>. QED  BY <1>1, <1>5, <1>10, <1>12, <2>1, AppendIs
  <1>14. ASSUME NEW t \in DOMAIN sorted' PROVE sorted'[t] = rep(t)
    <2>1. CASE t = s  BY <1>13, <2>1
    <2>2. CASE t # s
      <3>1. t \in 1 .. s - 1 /\ t \in DOMAIN sorted  BY <1>1, <1>5, <1>13, <2>2
      <3>. QED  BY <1>4, <1>13, <3>1
    <2>. QED  BY <2>1, <2>2
  <1>15. \A t \in DOMAIN sorted' : sorted'[t] = rep(t)'  BY <1>10, <1>14 DEF rep
  <1>. QED  BY <1>1, <1>2, <1>4, <1>5, <1>10, <1>11, <1>13, <1>15 DEF SortInv

LEMMA SortFrozen ==
    ASSUME SortInv, UNCHANGED sccVars
    PROVE  SortInv'
  BY DEF SortInv, sccVars, connectVars, sortVars, has_run, Nodes, rep

LEMMA SccStepKeeps ==
    ASSUME ConnectInv, SortInv, SccStep
    PROVE  ConnectInv' /\ SortInv'
  <1>1. CASE compute_sccs  BY <1>1, ComputeKeeps, ComputeKeepsSort
  <1>2. CASE sort_sccs
    <2>1. edges' = edges /\ UNCHANGED connectVars  BY <1>2 DEF sort_sccs
    <2>. QED  BY <1>2, <2>1, ConnectFrozen, SortRootKeeps
  <1>3. CASE sort_sccs_node
    <2>1. edges' = edges /\ UNCHANGED connectVars  BY <1>3 DEF sort_sccs_node
    <2>. QED  BY <1>3, <2>1, ConnectFrozen, SortNodeKeeps
  <1>. QED  BY <1>1, <1>2, <1>3 DEF SccStep

LEMMA HasSorted ==
    ASSUME ConnectInv, SortInv, has_sorted
    PROVE  /\ has_run /\ Len(sorted) = Len(sccs) /\ DOMAIN sorted = DOMAIN sccs
           /\ DOMAIN sccs = 1 .. Len(sccs) /\ Len(sccs) \in Nat
           /\ \A s \in DOMAIN sccs : sorted[s] = rep(s) /\ SortIndex(sorted, s) = s
  <1>. USE DEF ConnectInv
  <1>1. /\ Len(sccs) \in Nat /\ DOMAIN sccs = 1 .. Len(sccs)
        /\ sorted \in Seq(Nodes) /\ Len(sorted) \in Nat /\ DOMAIN sorted = 1 .. Len(sorted)
    BY DEF SccTypes, SortInv
  <1>2. has_run /\ sorting = <<>> /\ sort_root = Len(sccs) + 1  BY <1>1 DEF has_sorted, SortInv
  <1>3. Len(sorted) = Len(sccs)
    <2>1. \A x : <<x>> # <<>>  OBVIOUS
    <2>. QED  BY <1>1, <1>2, <2>1 DEF SortInv
  <1>4. ASSUME NEW s \in DOMAIN sccs PROVE sorted[s] = rep(s) /\ SortIndex(sorted, s) = s
    <2>1. \A t \in DOMAIN sorted : sorted[t] = rep(t)  BY DEF SortInv
    <2>2. s \in DOMAIN sorted /\ sorted[s] = rep(s)  BY <1>1, <1>3, <2>1
    <2>3. ASSUME NEW t \in DOMAIN sorted, sorted[t] = rep(s) PROVE t = s
      <3>1. t \in DOMAIN sccs /\ sccs[t][1] = sccs[s][1]  BY <1>1, <1>3, <2>1, <2>3 DEF rep
      <3>2. \A u \in DOMAIN sccs : 1 \in DOMAIN sccs[u]
        <4>1. \A u \in DOMAIN sccs : sccs[u] \in Seq(Nodes) /\ sccs[u] # <<>>
          BY DEF Components, SccTypes
        <4>. QED  BY <4>1
      <3>. QED  BY <3>1, <3>2 DEF Components
    <2>. QED  BY <2>2, <2>3 DEF SortIndex
  <1>. QED  BY <1>1, <1>2, <1>3, <1>4

-----------------------------------------------------------------------------
(* Recursions: N steps from S, each by G.                                  *)

IsChain(f, S, G, n) == f[0] = S /\ \A i \in 1..n : f[i] = G[f[i - 1]]

(* There is such a recursion, so that the recursive definitions define it. *)
LEMMA ChainExists ==
    ASSUME NEW D, NEW S \in D, NEW G \in [D -> D], NEW N \in Nat
    PROVE  \E f \in [0..N -> D] : IsChain(f, S, G, N)
  <1> DEFINE Has(n) == \E f \in [0..n -> D] : IsChain(f, S, G, n)
             Bad == {n \in Nat : ~Has(n)}
  <1>1. SUFFICES ASSUME Bad # {} PROVE FALSE
    OBVIOUS
  <1>2. Bad \in SUBSET Nat  OBVIOUS
  <1>3. PICK m \in Bad : \A y \in Bad : m <= y
    <2>. HIDE DEF Bad
    <2>. QED  BY <1>1, <1>2, LeastNumber
  <1>4. m \in Nat /\ ~Has(m)  BY <1>3
  <1>5. Has(0)
    <2>1. [n \in 0..0 |-> S] \in [0..0 -> D]  OBVIOUS
    <2>2. IsChain([n \in 0..0 |-> S], S, G, 0)  BY DEF IsChain
    <2>. QED  BY <2>1, <2>2
  <1>6. m # 0  BY <1>4, <1>5
  <1>7. m - 1 \in Nat /\ Has(m - 1)
    <2>1. m - 1 \in Nat /\ ~(m <= m - 1)  BY <1>4, <1>6
    <2>2. m - 1 \notin Bad  BY <1>3, <2>1
    <2>. QED  BY <2>1, <2>2
  <1>8. PICK f \in [0..(m - 1) -> D] : IsChain(f, S, G, m - 1)  BY <1>7
  <1>9. PICK g : g = [n \in 0..m |-> IF n < m THEN f[n] ELSE G[f[m - 1]]]  OBVIOUS
  <1>10. f[m - 1] \in D /\ G[f[m - 1]] \in D
    <2>1. m - 1 \in 0..(m - 1)  BY <1>7
    <2>. QED  BY <2>1, <1>8
  <1>11. g \in [0..m -> D]
    <2>1. ASSUME NEW n \in 0..m PROVE (IF n < m THEN f[n] ELSE G[f[m - 1]]) \in D
      <3>1. CASE n < m
        <4>1. n \in 0..(m - 1)  BY <1>4, <3>1
        <4>. QED  BY <4>1, <3>1, <1>8
      <3>2. CASE ~(n < m)  BY <3>2, <1>10
      <3>. QED  BY <3>1, <3>2
    <2>. QED  BY <1>9, <2>1
  <1>12. IsChain(g, S, G, m)
    <2>1. g[0] = S
      <3>1. 0 \in 0..m /\ 0 < m  BY <1>4, <1>6
      <3>. QED  BY <3>1, <1>8, <1>9 DEF IsChain
    <2>2. ASSUME NEW i \in 1..m PROVE g[i] = G[g[i - 1]]
      <3>1. i - 1 \in 0..m /\ i \in 0..m /\ i - 1 < m  BY <1>4
      <3>2. g[i - 1] = f[i - 1]  BY <1>9, <3>1
      <3>3. CASE i = m
        <4>1. g[i] = G[f[m - 1]]  BY <1>4, <1>9, <3>1, <3>3
        <4>. QED  BY <3>2, <3>3, <4>1
      <3>4. CASE i # m
        <4>1. i < m /\ i \in 1..(m - 1)  BY <1>4, <3>4
        <4>2. g[i] = f[i]  BY <1>9, <3>1, <4>1
        <4>3. f[i] = G[f[i - 1]]  BY <1>8, <4>1 DEF IsChain
        <4>. QED  BY <3>2, <4>2, <4>3
      <3>. QED  BY <3>3, <3>4
    <2>. QED  BY <2>1, <2>2 DEF IsChain
  <1>. QED  BY <1>4, <1>11, <1>12

(* What a recursion starts with and keeps, it has throughout. *)
Keeps(f, D, N) == \A n \in 1..N : f[n - 1] \in D => f[n] \in D

LEMMA ChainKeeps ==
    ASSUME NEW f, NEW D, NEW N \in Nat, f[0] \in D, Keeps(f, D, N)
    PROVE  \A n \in 0..N : f[n] \in D
  <1> DEFINE Bad == {n \in 0..N : f[n] \notin D}
  <1>1. SUFFICES ASSUME Bad # {} PROVE FALSE
    OBVIOUS
  <1>2. Bad \in SUBSET Nat  OBVIOUS
  <1>3. PICK m \in Bad : \A y \in Bad : m <= y
    <2>. HIDE DEF Bad
    <2>. QED  BY <1>1, <1>2, LeastNumber
  <1>4. m \in 0..N /\ f[m] \notin D  BY <1>3
  <1>5. m # 0  BY <1>4
  <1>6. m - 1 \in 0..N /\ m \in 1..N /\ ~(m <= m - 1)  BY <1>4, <1>5
  <1>7. f[m - 1] \in D  BY <1>3, <1>6
  <1>. QED  BY <1>4, <1>6, <1>7 DEF Keeps

(* A recursion over the subsets of P, none of whose steps takes anything   *)
(* away.                                                                   *)
GrowsIn(P, f, N) ==
    /\ N \in Nat /\ \A n \in 0..N : f[n] \in SUBSET P
    /\ \A n \in 1..N : f[n - 1] \subseteq f[n]
    /\ \A m, n \in 1..N : f[m - 1] = f[n - 1] => f[m] = f[n]

(* As many steps as there are elements are enough: a step that adds none   *)
(* is followed by no other.                                                *)
LEMMA ChainFixed ==
    ASSUME NEW P, NEW N, NEW f, GrowsIn(P, f, N), IsFiniteSet(P), N >= Cardinality(P)
    PROVE  f[N] = P \/ (N > 0 /\ f[N] = f[N - 1])
  <1>. USE DEF GrowsIn
  <1>1. \A n \in 0..N : IsFiniteSet(f[n]) /\ Cardinality(f[n]) \in Nat
    BY FS_Subset, FS_CardinalityType
  <1>2. Cardinality(P) \in Nat  BY FS_CardinalityType
  <1> DEFINE Low == {n \in 0..N : Cardinality(f[n]) < n}
  <1>0. SUFFICES ASSUME f[N] # P PROVE N > 0 /\ f[N] = f[N - 1]
    OBVIOUS
  <1>3. Low \in SUBSET Nat /\ Low # {}
    <2>1. N \in 0..N  OBVIOUS
    <2>2. Cardinality(f[N]) <= Cardinality(P) /\ Cardinality(f[N]) # Cardinality(P)
      BY <1>0, <2>1, FS_Subset
    <2>3. Cardinality(f[N]) < N  BY <1>1, <1>2, <2>1, <2>2
    <2>. QED  BY <2>1, <2>3
  <1>4. PICK m \in Low : \A y \in Low : m <= y
    <2>. HIDE DEF Low
    <2>. QED  BY <1>3, LeastNumber
  <1>5. m \in 0..N /\ Cardinality(f[m]) < m  BY <1>4
  <1>6. m - 1 \in 0..N /\ m \in 1..N /\ ~(m <= m - 1)  BY <1>1, <1>5
  <1>7. m - 1 \notin Low  BY <1>4, <1>6
  <1>8. Cardinality(f[m - 1]) \in Nat /\ Cardinality(f[m - 1]) >= m - 1  BY <1>1, <1>6, <1>7
  <1>9. f[m - 1] \subseteq f[m] /\ IsFiniteSet(f[m])  BY <1>1, <1>5, <1>6
  <1>10. Cardinality(f[m - 1]) <= Cardinality(f[m])  BY <1>9, FS_Subset
  <1>11. Cardinality(f[m - 1]) = Cardinality(f[m])  BY <1>1, <1>5, <1>6, <1>8, <1>10
  <1>12. f[m - 1] = f[m]  BY <1>9, <1>11, FS_Subset
  <1> DEFINE Bad == {i \in 1..N : i >= m /\ f[i] # f[i - 1]}
  <1>13. SUFFICES ASSUME Bad # {} PROVE FALSE
    BY <1>5, <1>6
  <1>14. Bad \in SUBSET Nat  OBVIOUS
  <1>15. PICK l \in Bad : \A y \in Bad : l <= y
    <2>. HIDE DEF Bad
    <2>. QED  BY <1>13, <1>14, LeastNumber
  <1>16. l \in 1..N /\ l >= m /\ f[l] # f[l - 1]  BY <1>15
  <1>17. l # m  BY <1>12, <1>16
  <1>18. l - 1 \in 1..N /\ l - 1 >= m /\ ~(l <= l - 1)  BY <1>6, <1>16, <1>17
  <1>19. l - 1 \notin Bad  BY <1>15, <1>18
  <1>20. f[l - 1] = f[(l - 1) - 1]  BY <1>18, <1>19
  <1>21. f[l] = f[l - 1]  BY <1>16, <1>18, <1>20
  <1>. QED  BY <1>16, <1>21

-----------------------------------------------------------------------------
(* ReachedFrom is what the edges of v lead to.                             *)

Widen(es, r) == r \cup UNION {ToSet(es[w]) : w \in r}

Widening(f, es, S, N) == f = [n \in 0..N |-> IF n = 0 THEN S ELSE Widen(es, f[n - 1])]

IsGraph(es) == es \in Seq(Seq(DOMAIN es))

LEMMA GraphIs ==
    ASSUME NEW es, IsGraph(es)
    PROVE  /\ Len(es) \in Nat /\ DOMAIN es = 1..Len(es)
           /\ IsFiniteSet(DOMAIN es) /\ Cardinality(DOMAIN es) = Len(es)
           /\ \A v \in DOMAIN es : ToSet(es[v]) \subseteq DOMAIN es
  <1>1. Len(es) \in Nat /\ DOMAIN es = 1..Len(es)  BY DEF IsGraph
  <1>2. IsFiniteSet(1..Len(es)) /\ Cardinality(1..Len(es)) = Len(es)
    <2>1. 1 \in Int /\ Len(es) \in Int  BY <1>1
    <2>2. Cardinality(1..Len(es)) = IF 1 > Len(es) THEN 0 ELSE Len(es) - 1 + 1
      BY <2>1, FS_Interval
    <2>3. IsFiniteSet(1..Len(es))  BY <2>1, FS_Interval
    <2>. QED  BY <1>1, <2>2, <2>3
  <1>3. \A v \in DOMAIN es : es[v] \in Seq(DOMAIN es)  BY DEF IsGraph
  <1>. QED  BY <1>1, <1>2, <1>3 DEF ToSet

LEMMA WideningIs ==
    ASSUME NEW es, IsGraph(es), NEW S \in SUBSET DOMAIN es, NEW N \in Nat
    PROVE  /\ \E f : Widening(f, es, S, N)
           /\ \A f : Widening(f, es, S, N) => \A n \in 0..N : f[n] \in SUBSET DOMAIN es
  <1>1. PICK P : P = DOMAIN es  OBVIOUS
  <1>2. \A r \in SUBSET P : Widen(es, r) \in SUBSET P  BY <1>1, GraphIs DEF Widen
  <1>3. PICK G : G = [r \in SUBSET P |-> Widen(es, r)]  OBVIOUS
  <1>4. G \in [SUBSET P -> SUBSET P] /\ \A r \in SUBSET P : G[r] = Widen(es, r)  BY <1>2, <1>3
  <1>5. PICK f \in [0..N -> SUBSET P] : IsChain(f, S, G, N)  BY <1>1, <1>4, ChainExists
  <1>6. ASSUME NEW n \in 0..N PROVE f[n] = IF n = 0 THEN S ELSE Widen(es, f[n - 1])
    <2>1. CASE n = 0  BY <1>5, <2>1 DEF IsChain
    <2>2. CASE n # 0
      <3>1. n \in 1..N /\ n - 1 \in 0..N  BY <2>2
      <3>2. f[n] = G[f[n - 1]] /\ f[n - 1] \in SUBSET P  BY <1>5, <3>1 DEF IsChain
      <3>. QED  BY <1>4, <2>2, <3>2
    <2>. QED  BY <2>1, <2>2
  <1>7. f = [n \in 0..N |-> f[n]]  BY <1>5
  <1>8. Widening(f, es, S, N)  BY <1>6, <1>7 DEF Widening
  <1>9. ASSUME NEW h, Widening(h, es, S, N) PROVE \A n \in 0..N : h[n] \in SUBSET P
    <2>1. h[0] = S /\ \A n \in 1..N : h[n] = Widen(es, h[n - 1])  BY <1>9 DEF Widening
    <2>2. Keeps(h, SUBSET P, N)  BY <1>2, <2>1 DEF Keeps
    <2>3. h[0] \in SUBSET P  BY <1>1, <2>1
    <2>. QED  BY <2>2, <2>3, ChainKeeps
  <1>. QED  BY <1>1, <1>8, <1>9

(* The least set that holds the edges of v and is closed. *)
LEMMA ReachedLeast ==
    ASSUME NEW es, IsGraph(es), NEW v \in DOMAIN es
    PROVE  /\ ReachedFrom(es, v) \subseteq DOMAIN es /\ ToSet(es[v]) \subseteq ReachedFrom(es, v)
           /\ \A x \in ReachedFrom(es, v) : ToSet(es[x]) \subseteq ReachedFrom(es, v)
           /\ \A X : ToSet(es[v]) \subseteq X /\ (\A x \in X : ToSet(es[x]) \subseteq X)
                        => ReachedFrom(es, v) \subseteq X
  <1>1. PICK S, N, P : S = ToSet(es[v]) /\ N = Len(es) /\ P = DOMAIN es  OBVIOUS
  <1>2. N \in Nat /\ S \in SUBSET P /\ IsFiniteSet(P) /\ Cardinality(P) = N  BY <1>1, GraphIs
  <1>3. PICK R : R = CHOOSE f : Widening(f, es, S, N)  OBVIOUS
  <1>4. \E f : Widening(f, es, S, N)  BY <1>1, <1>2, WideningIs
  <1>5. Widening(R, es, S, N)  BY <1>3, <1>4
  <1>6. ReachedFrom(es, v) = R[N]  BY <1>1, <1>3 DEF ReachedFrom, Widening, Widen
  <1>7. R[0] = S /\ \A n \in 1..N : R[n] = Widen(es, R[n - 1])  BY <1>2, <1>5 DEF Widening
  <1>8. \A n \in 0..N : R[n] \in SUBSET P  BY <1>1, <1>2, <1>5, WideningIs
  <1>9. GrowsIn(P, R, N)  BY <1>2, <1>7, <1>8 DEF GrowsIn, Widen
  <1>10. R[N] = P \/ (N > 0 /\ R[N] = R[N - 1])  BY <1>2, <1>9, ChainFixed
  <1>11. ASSUME NEW x \in R[N] PROVE ToSet(es[x]) \subseteq R[N]
    <2>1. CASE R[N] = P  BY <1>1, <2>1, GraphIs
    <2>2. CASE N > 0 /\ R[N] = R[N - 1]
      <3>1. N \in 1..N  BY <1>2, <2>2
      <3>2. R[N] = Widen(es, R[N])  BY <1>7, <2>2, <3>1
      <3>. QED  BY <3>2 DEF Widen
    <2>. QED  BY <1>10, <2>1, <2>2
  <1>12. S \subseteq R[N]
    <2>1. Keeps(R, {Y \in SUBSET P : S \subseteq Y}, N)
      <3>1. \A n \in 1..N : n \in 0..N  OBVIOUS
      <3>. QED  BY <1>7, <1>8, <3>1 DEF Keeps, Widen
    <2>2. R[0] \in {Y \in SUBSET P : S \subseteq Y}  BY <1>2, <1>7
    <2>3. N \in 0..N  BY <1>2
    <2>. QED  BY <1>2, <2>1, <2>2, <2>3, ChainKeeps
  <1>13. ASSUME NEW X, S \subseteq X, \A x \in X : ToSet(es[x]) \subseteq X
         PROVE  R[N] \subseteq X
    <2>1. Keeps(R, SUBSET X, N)  BY <1>7, <1>13 DEF Keeps, Widen
    <2>2. R[0] \in SUBSET X  BY <1>7, <1>13
    <2>3. N \in 0..N  BY <1>2
    <2>. QED  BY <1>2, <2>1, <2>2, <2>3, ChainKeeps
  <1>14. R[N] \subseteq P
    <2>1. N \in 0..N  BY <1>2
    <2>. QED  BY <1>8, <2>1
  <1>. QED  BY <1>1, <1>6, <1>11, <1>12, <1>13, <1>14

LEMMA ReachedIs ==
    ASSUME NEW es, IsGraph(es), NEW v \in DOMAIN es, NEW w
    PROVE  w \in ReachedFrom(es, v) <=> w \in DOMAIN es /\ \E u \in ToSet(es[v]) : Leads(es, u, w)
  <1>1. PICK R : R = ReachedFrom(es, v)  OBVIOUS
  <1>2. /\ R \subseteq DOMAIN es /\ ToSet(es[v]) \subseteq R /\ \A x \in R : ToSet(es[x]) \subseteq R
        /\ \A X : ToSet(es[v]) \subseteq X /\ (\A x \in X : ToSet(es[x]) \subseteq X) => R \subseteq X
    BY <1>1, ReachedLeast
  <1>3. ASSUME w \in DOMAIN es, NEW u \in ToSet(es[v]), Leads(es, u, w) PROVE w \in R
    BY <1>2, <1>3 DEF Leads
  <1>4. ASSUME w \in R PROVE w \in DOMAIN es /\ \E u \in ToSet(es[v]) : Leads(es, u, w)
    <2>1. PICK X : X = {x \in DOMAIN es : \E u \in ToSet(es[v]) : Leads(es, u, x)}  OBVIOUS
    <2>2. ToSet(es[v]) \subseteq X  BY <1>2, <2>1, LeadsSelf
    <2>3. ASSUME NEW x \in X PROVE ToSet(es[x]) \subseteq X
      <3>1. ToSet(es[x]) \subseteq DOMAIN es  BY <2>1, GraphIs
      <3>2. \A y \in ToSet(es[x]) : Leads(es, x, y)  BY <2>1, LeadsEdge
      <3>. QED  BY <2>1, <3>1, <3>2, LeadsOn
    <2>4. R \subseteq X  BY <1>2, <2>2, <2>3
    <2>. QED  BY <1>4, <2>1, <2>4
  <1>. QED  BY <1>1, <1>3, <1>4

(* A node that leads to another leads there over an edge. *)
LEMMA LeadsFirst ==
    ASSUME NEW es, IsGraph(es), NEW v \in DOMAIN es, NEW w \in DOMAIN es
    PROVE  Leads(es, v, w) <=> w = v \/ w \in ReachedFrom(es, v)
  <1>1. ASSUME Leads(es, v, w) PROVE w = v \/ w \in ReachedFrom(es, v)
    <2>1. PICK S : S = {v} \cup ReachedFrom(es, v)  OBVIOUS
    <2>2. S \in SUBSET DOMAIN es /\ v \in S /\ \A x \in S : ToSet(es[x]) \subseteq S
      BY <2>1, ReachedLeast
    <2>. QED  BY <1>1, <2>1, <2>2 DEF Leads
  <1>2. ASSUME w \in ReachedFrom(es, v) PROVE Leads(es, v, w)
    BY <1>2, ReachedIs, LeadsEdge, LeadsOn
  <1>. QED  BY <1>1, <1>2, LeadsSelf
-----------------------------------------------------------------------------
(* What compute_sccs and sort_sccs have computed.                          *)

LEMMA SccGraph == ASSUME ConnectInv PROVE IsGraph(edges) /\ Nodes = DOMAIN edges
  BY DEF ConnectInv, SccTypes, IsGraph, Nodes

LEMMA CalleesComeFirst == ASSUME ConnectInv, SortInv PROVE CalleesFirst
  <1>1. SUFFICES ASSUME has_sorted
                 PROVE  /\ Len(sorted) = Len(sccs)
                        /\ \A v \in Nodes :
                              /\ get_scc_rep(v) \in ToSet(sorted)
                              /\ \A w \in ToSet(edges[v]) :
                                    SortIndex(sorted, mapping(w)) <= SortIndex(sorted, mapping(v))
    BY DEF CalleesFirst
  <1>2. ASSUME NEW v \in Nodes PROVE get_scc_rep(v) \in ToSet(sorted)
    <2>1. mapping(v) \in DOMAIN sccs  BY <1>1, HasSorted, HasRun
    <2>2. sorted[mapping(v)] = rep(mapping(v)) /\ mapping(v) \in DOMAIN sorted
      BY <1>1, <2>1, HasSorted
    <2>. QED  BY <2>2 DEF get_scc_rep, ToSet
  <1>3. ASSUME NEW v \in Nodes, NEW w \in ToSet(edges[v])
        PROVE  SortIndex(sorted, mapping(w)) <= SortIndex(sorted, mapping(v))
    <2>1. has_run  BY <1>1, HasSorted
    <2>2. w \in Nodes /\ mapping(w) <= mapping(v)  BY <2>1, EdgesGoDown
    <2>3. mapping(v) \in DOMAIN sccs /\ mapping(w) \in DOMAIN sccs  BY <2>1, <2>2, HasRun
    <2>4. SortIndex(sorted, mapping(v)) = mapping(v) /\ SortIndex(sorted, mapping(w)) = mapping(w)
      BY <1>1, <2>3, HasSorted
    <2>. QED  BY <2>2, <2>4
  <1>4. Len(sorted) = Len(sccs)  BY <1>1, HasSorted
  <1>. QED  BY <1>2, <1>3, <1>4

(* Paths go down, and come back only within a component. *)
LEMMA LeadsDown ==
    ASSUME ConnectInv, has_run, NEW v \in Nodes, NEW w \in Nodes, Leads(edges, v, w)
    PROVE  mapping(w) <= mapping(v)
  <1>1. PICK S : S = {x \in Nodes : mapping(x) <= mapping(v)}  OBVIOUS
  <1>2. DOMAIN sccs \subseteq Nat  BY DEF ConnectInv, SccTypes
  <1>3. \A x \in Nodes : mapping(x) \in Nat  BY <1>2, HasRun
  <1>4. v \in S  BY <1>1, <1>3
  <1>5. ASSUME NEW x \in S, NEW y \in ToSet(edges[x]) PROVE y \in S
    <2>1. x \in Nodes /\ mapping(x) <= mapping(v)  BY <1>1
    <2>2. y \in Nodes /\ mapping(y) <= mapping(x)  BY <2>1, EdgesGoDown
    <2>. QED  BY <1>1, <1>3, <2>1, <2>2
  <1>6. S \in SUBSET DOMAIN edges  BY <1>1 DEF Nodes
  <1>7. w \in S  BY <1>4, <1>5, <1>6 DEF Leads
  <1>. QED  BY <1>1, <1>7

LEMMA SameComponent ==
    ASSUME ConnectInv, has_run, NEW v \in Nodes, NEW w \in Nodes
    PROVE  mapping(v) = mapping(w) <=> Leads(edges, v, w) /\ Leads(edges, w, v)
  <1>1. ASSUME mapping(v) = mapping(w) PROVE Leads(edges, v, w) /\ Leads(edges, w, v)
    <2>1. mapping(v) \in DOMAIN sccs /\ v \in ToSet(sccs[mapping(v)]) /\ w \in ToSet(sccs[mapping(v)])
      BY <1>1, HasRun
    <2>. QED  BY <2>1 DEF ConnectInv, Components
  <1>2. ASSUME Leads(edges, v, w), Leads(edges, w, v) PROVE mapping(v) = mapping(w)
    <2>1. DOMAIN sccs \subseteq Nat  BY DEF ConnectInv, SccTypes
    <2>2. mapping(v) \in Nat /\ mapping(w) \in Nat  BY <2>1, HasRun
    <2>3. mapping(w) <= mapping(v) /\ mapping(v) <= mapping(w)  BY <1>2, LeadsDown
    <2>. QED  BY <2>2, <2>3
  <1>. QED  BY <1>1, <1>2

LEMMA ComponentsAreExact == ASSUME ConnectInv, SortInv PROVE ComponentsExact
  <1>1. SUFFICES ASSUME has_sorted
                 PROVE  /\ \A v \in Nodes : \E s \in DOMAIN sccs : \E i \in DOMAIN sccs[s] :
                              /\ sccs[s][i] = v
                              /\ \A t \in DOMAIN sccs : \A j \in DOMAIN sccs[t] :
                                    sccs[t][j] = v => t = s /\ j = i
                        /\ \A v, w \in Nodes :
                              v # w => ((mapping(v) = mapping(w))
                                          <=> (w \in ReachedFrom(edges, v) /\ v \in ReachedFrom(edges, w)))
    BY DEF ComponentsExact
  <1>2. has_run  BY <1>1, HasSorted
  <1>3. ASSUME NEW v \in Nodes
        PROVE  \E s \in DOMAIN sccs : \E i \in DOMAIN sccs[s] :
                  /\ sccs[s][i] = v
                  /\ \A t \in DOMAIN sccs : \A j \in DOMAIN sccs[t] :
                        sccs[t][j] = v => t = s /\ j = i
    <2>1. PICK s : s \in DOMAIN sccs /\ v \in ToSet(sccs[s])  BY <1>2, HasRun
    <2>2. PICK i \in DOMAIN sccs[s] : sccs[s][i] = v  BY <2>1 DEF ToSet
    <2>3. \A t \in DOMAIN sccs : \A j \in DOMAIN sccs[t] : sccs[t][j] = v => t = s /\ j = i
      BY <2>1, <2>2 DEF ConnectInv, Components
    <2>. QED  BY <2>1, <2>2, <2>3
  <1>4. ASSUME NEW v \in Nodes, NEW w \in Nodes, v # w
        PROVE  (mapping(v) = mapping(w))
                  <=> (w \in ReachedFrom(edges, v) /\ v \in ReachedFrom(edges, w))
    <2>1. mapping(v) = mapping(w) <=> Leads(edges, v, w) /\ Leads(edges, w, v)
      BY <1>2, SameComponent
    <2>2. IsGraph(edges) /\ v \in DOMAIN edges /\ w \in DOMAIN edges  BY SccGraph
    <2>3. Leads(edges, v, w) <=> w \in ReachedFrom(edges, v)  BY <1>4, <2>2, LeadsFirst
    <2>4. Leads(edges, w, v) <=> v \in ReachedFrom(edges, w)  BY <1>4, <2>2, LeadsFirst
    <2>. QED  BY <2>1, <2>3, <2>4
  <1>. QED  BY <1>3, <1>4

(* node_is_in_cycle *)
LEMMA InCycle ==
    ASSUME ConnectInv, has_run, NEW v \in Nodes
    PROVE  node_is_in_cycle(v) <=> v \in ReachedFrom(edges, v)
  <1>1. IsGraph(edges) /\ v \in DOMAIN edges  BY SccGraph
  <1>2. PICK s : s = mapping(v)  OBVIOUS
  <1>3. s \in DOMAIN sccs /\ v \in ToSet(sccs[s]) /\ sccs[s] \in Seq(Nodes)
    <2>1. s \in DOMAIN sccs /\ v \in ToSet(sccs[s])  BY <1>2, HasRun
    <2>. QED  BY <2>1 DEF ConnectInv, SccTypes
  <1>4. Len(sccs[s]) \in Nat /\ DOMAIN sccs[s] = 1..Len(sccs[s])  BY <1>3
  <1>5. PICK i \in DOMAIN sccs[s] : sccs[s][i] = v  BY <1>3 DEF ToSet
  <1>6. ASSUME node_has_direct_edge_to_itself(v) PROVE v \in ReachedFrom(edges, v)
    BY <1>1, <1>6, ReachedLeast DEF node_has_direct_edge_to_itself
  <1>7. ASSUME Len(sccs[s]) > 1 PROVE v \in ReachedFrom(edges, v)
    <2>1. PICK j : j \in DOMAIN sccs[s] /\ j # i
      <3>1. 1 \in DOMAIN sccs[s] /\ 2 \in DOMAIN sccs[s] /\ 1 # 2  BY <1>4, <1>7
      <3>. QED  BY <3>1
    <2>2. PICK w : w = sccs[s][j]  OBVIOUS
    <2>3. w \in Nodes /\ w # v /\ w \in ToSet(sccs[s])
      <3>1. w \in Nodes /\ w \in ToSet(sccs[s])  BY <1>3, <2>1, <2>2 DEF ToSet
      <3>2. w # v  BY <1>3, <1>5, <2>1, <2>2 DEF ConnectInv, Components
      <3>. QED  BY <3>1, <3>2
    <2>4. Leads(edges, v, w) /\ Leads(edges, w, v)
      BY <1>3, <2>3 DEF ConnectInv, Components
    <2>5. w \in ReachedFrom(edges, v)  BY <1>1, <2>3, <2>4, SccGraph, LeadsFirst
    <2>6. PICK u \in ToSet(edges[v]) : Leads(edges, u, w)  BY <1>1, <2>5, ReachedIs
    <2>7. Leads(edges, u, v)  BY <2>4, <2>6, LeadsOn
    <2>. QED  BY <1>1, <2>6, <2>7, ReachedIs
  <1>8. ASSUME v \in ReachedFrom(edges, v), ~node_has_direct_edge_to_itself(v)
        PROVE  Len(sccs[s]) > 1
    <2>1. PICK u \in ToSet(edges[v]) : Leads(edges, u, v)  BY <1>1, <1>8, ReachedIs
    <2>2. u \in Nodes /\ u # v  BY <1>1, <1>8, GraphIs, SccGraph DEF node_has_direct_edge_to_itself
    <2>3. Leads(edges, v, u)  BY <1>1, <2>1, LeadsEdge
    <2>4. mapping(u) = s  BY <1>2, <2>1, <2>2, <2>3, SameComponent
    <2>5. u \in ToSet(sccs[s])  BY <2>2, <2>4, HasRun
    <2>6. PICK j \in DOMAIN sccs[s] : sccs[s][j] = u  BY <2>5 DEF ToSet
    <2>7. j # i  BY <1>5, <2>2, <2>6
    <2>. QED  BY <1>4, <1>5, <2>6, <2>7
  <1>. QED  BY <1>2, <1>6, <1>7, <1>8 DEF node_is_in_cycle, get_scc_size
-----------------------------------------------------------------------------
(* can_reach                                                               *)

SccTargets(s) == {SccTarget(s, p) : p \in SccEdges(s)}

LEMMA SccTargetsAre ==
    ASSUME ConnectInv, has_run, NEW s \in DOMAIN sccs
    PROVE  /\ \A t : t \in SccTargets(s) <=>
                        \E x \in ToSet(sccs[s]) : \E w \in ToSet(edges[x]) : t = mapping(w)
           /\ SccTargets(s) \subseteq DOMAIN sccs
  <1>0. sccs[s] \in Seq(Nodes) /\ ToSet(sccs[s]) \subseteq Nodes
    <2>1. sccs[s] \in Seq(Nodes)  BY DEF ConnectInv, SccTypes
    <2>. QED  BY <2>1 DEF ToSet
  <1>1. ASSUME NEW t \in SccTargets(s)
        PROVE  \E x \in ToSet(sccs[s]) : \E w \in ToSet(edges[x]) : t = mapping(w)
    <2>1. PICK p \in SccEdges(s) : t = SccTarget(s, p)  BY DEF SccTargets
    <2>2. PICK i \in DOMAIN sccs[s] : p \in {i} \X DOMAIN edges[sccs[s][i]]  BY DEF SccEdges
    <2>3. PICK x : x = sccs[s][i]  OBVIOUS
    <2>4. x \in ToSet(sccs[s]) /\ p[1] = i /\ p[2] \in DOMAIN edges[x]  BY <2>2, <2>3 DEF ToSet
    <2>5. edges[x][p[2]] \in ToSet(edges[x])  BY <2>4 DEF ToSet
    <2>6. t = mapping(edges[x][p[2]])  BY <2>1, <2>3, <2>4 DEF SccTarget
    <2>. QED  BY <2>4, <2>5, <2>6
  <1>2. ASSUME NEW x \in ToSet(sccs[s]), NEW w \in ToSet(edges[x]) PROVE mapping(w) \in SccTargets(s)
    <2>1. PICK i \in DOMAIN sccs[s] : x = sccs[s][i]  BY DEF ToSet
    <2>2. PICK j \in DOMAIN edges[x] : w = edges[x][j]  BY DEF ToSet
    <2>3. PICK p : p = <<i, j>>  OBVIOUS
    <2>4. p \in {i} \X DOMAIN edges[sccs[s][i]] /\ p[1] = i /\ p[2] = j  BY <2>1, <2>2, <2>3
    <2>5. p \in SccEdges(s)  BY <2>1, <2>4 DEF SccEdges
    <2>6. SccTarget(s, p) = mapping(w)  BY <2>1, <2>2, <2>4 DEF SccTarget
    <2>. QED  BY <2>5, <2>6 DEF SccTargets
  <1>3. SccTargets(s) \subseteq DOMAIN sccs
    <2>1. \A x \in Nodes : \A w \in ToSet(edges[x]) : mapping(w) \in DOMAIN sccs
      BY EdgesGoDown, HasRun
    <2>. QED  BY <1>0, <1>1, <2>1
  <1>. QED  BY <1>1, <1>2, <1>3

Open(order, tgt, r) == {s \in r : s # tgt /\ ~Passed(order, s, tgt)}

Searched(order, tgt, r) == r \cup UNION {SccTargets(s) : s \in Open(order, tgt, r)}

Searching(f, order, tgt, S, N) ==
    f = [n \in 0..N |-> IF n = 0 THEN S ELSE Searched(order, tgt, f[n - 1])]

LEMMA SearchingIs ==
    ASSUME ConnectInv, has_run, NEW order, NEW tgt, NEW S \in SUBSET DOMAIN sccs, NEW N \in Nat
    PROVE  /\ \E f : Searching(f, order, tgt, S, N)
           /\ \A f : Searching(f, order, tgt, S, N) => \A n \in 0..N : f[n] \in SUBSET DOMAIN sccs
  <1>1. PICK P : P = DOMAIN sccs  OBVIOUS
  <1>2. \A r \in SUBSET P : Searched(order, tgt, r) \in SUBSET P
    BY <1>1, SccTargetsAre DEF Searched, Open
  <1>3. PICK G : G = [r \in SUBSET P |-> Searched(order, tgt, r)]  OBVIOUS
  <1>4. G \in [SUBSET P -> SUBSET P] /\ \A r \in SUBSET P : G[r] = Searched(order, tgt, r)
    BY <1>2, <1>3
  <1>5. PICK f \in [0..N -> SUBSET P] : IsChain(f, S, G, N)  BY <1>1, <1>4, ChainExists
  <1>6. ASSUME NEW n \in 0..N PROVE f[n] = IF n = 0 THEN S ELSE Searched(order, tgt, f[n - 1])
    <2>1. CASE n = 0  BY <1>5, <2>1 DEF IsChain
    <2>2. CASE n # 0
      <3>1. n \in 1..N /\ n - 1 \in 0..N  BY <2>2
      <3>2. f[n] = G[f[n - 1]] /\ f[n - 1] \in SUBSET P  BY <1>5, <3>1 DEF IsChain
      <3>. QED  BY <1>4, <2>2, <3>2
    <2>. QED  BY <2>1, <2>2
  <1>7. f = [n \in 0..N |-> f[n]]  BY <1>5
  <1>8. Searching(f, order, tgt, S, N)  BY <1>6, <1>7 DEF Searching
  <1>9. ASSUME NEW h, Searching(h, order, tgt, S, N) PROVE \A n \in 0..N : h[n] \in SUBSET P
    <2>1. h[0] = S /\ \A n \in 1..N : h[n] = Searched(order, tgt, h[n - 1])  BY <1>9 DEF Searching
    <2>2. Keeps(h, SUBSET P, N)  BY <1>2, <2>1 DEF Keeps
    <2>3. h[0] \in SUBSET P  BY <1>1, <2>1
    <2>. QED  BY <2>2, <2>3, ChainKeeps
  <1>. QED  BY <1>1, <1>8, <1>9

(* With the order or without: what is passed over is below the target, and *)
(* leads only further down.                                                *)
LEMMA PassedIsBelow ==
    ASSUME ConnectInv, SortInv, has_sorted, NEW order \in {<<>>, sorted},
           NEW s \in DOMAIN sccs, NEW t \in DOMAIN sccs, Passed(order, s, t)
    PROVE  s < t
  BY HasSorted DEF Passed

LEMMA CanReachIs ==
    ASSUME ConnectInv, SortInv, has_sorted, NEW v \in Nodes, NEW w \in Nodes,
           NEW order \in {<<>>, sorted}
    PROVE  can_reach(order, v, w) <=> Leads(edges, v, w)
  <1>0. has_run  BY HasSorted
  <1>1. PICK P, N, tgt, S : P = DOMAIN sccs /\ N = Len(sccs) /\ tgt = mapping(w) /\ S = {mapping(v)}
    OBVIOUS
  <1>2. /\ tgt \in P /\ S \in SUBSET P /\ N \in Nat /\ P = 1..N
        /\ IsFiniteSet(P) /\ Cardinality(P) = N
    <2>1. tgt \in P /\ S \in SUBSET P  BY <1>0, <1>1, HasRun
    <2>2. N \in Nat /\ P = 1..N  BY <1>1, HasSorted
    <2>3. 1 \in Int /\ N \in Int  BY <2>2
    <2>4. IsFiniteSet(1..N)  BY <2>3, FS_Interval
    <2>5. Cardinality(1..N) = IF 1 > N THEN 0 ELSE N - 1 + 1  BY <2>3, FS_Interval
    <2>. QED  BY <2>1, <2>2, <2>4, <2>5
  <1>3. PICK R : R = CHOOSE f : Searching(f, order, tgt, S, N)  OBVIOUS
  <1>4. \E f : Searching(f, order, tgt, S, N)  BY <1>0, <1>1, <1>2, SearchingIs
  <1>5. Searching(R, order, tgt, S, N)  BY <1>3, <1>4
  <1>6. can_reach(order, v, w) <=> tgt \in R[N]
    BY <1>1, <1>3 DEF can_reach, Searching, Searched, Open, SccTargets
  <1>7. R[0] = S /\ \A n \in 1..N : R[n] = Searched(order, tgt, R[n - 1])  BY <1>2, <1>5 DEF Searching
  <1>8. \A n \in 0..N : R[n] \in SUBSET P  BY <1>0, <1>1, <1>2, <1>5, SearchingIs
  <1>9. GrowsIn(P, R, N)
    <2>1. \A n \in 1..N : R[n - 1] \subseteq R[n]  BY <1>7 DEF Searched
    <2>2. \A m, n \in 1..N : R[m - 1] = R[n - 1] => R[m] = R[n]  BY <1>7
    <2>. QED  BY <1>2, <1>8, <2>1, <2>2 DEF GrowsIn
  <1>10. R[N] = P \/ (N > 0 /\ R[N] = R[N - 1])  BY <1>2, <1>9, ChainFixed
  <1>11. N \in 0..N /\ R[N] \subseteq P  BY <1>2, <1>8
  <1>12. ASSUME NEW s \in R[N], s # tgt, ~Passed(order, s, tgt) PROVE SccTargets(s) \subseteq R[N]
    <2>1. CASE R[N] = P  BY <1>0, <1>1, <1>11, <2>1, SccTargetsAre
    <2>2. CASE N > 0 /\ R[N] = R[N - 1]
      <3>1. N \in 1..N  BY <1>2, <2>2
      <3>2. R[N] = Searched(order, tgt, R[N])  BY <1>7, <2>2, <3>1
      <3>. QED  BY <1>12, <3>2 DEF Searched, Open
    <2>. QED  BY <1>10, <2>1, <2>2
  <1>13. mapping(v) \in R[N]
    <2>1. Keeps(R, {Y \in SUBSET P : S \subseteq Y}, N)
      <3>1. \A n \in 1..N : n \in 0..N  OBVIOUS
      <3>. QED  BY <1>7, <1>8, <3>1 DEF Keeps, Searched
    <2>2. R[0] \in {Y \in SUBSET P : S \subseteq Y}  BY <1>2, <1>7
    <2>3. \A n \in 0..N : R[n] \in {Y \in SUBSET P : S \subseteq Y}  BY <1>2, <2>1, <2>2, ChainKeeps
    <2>. QED  BY <1>1, <1>11, <2>3
  <1>14. ASSUME tgt \in R[N] PROVE Leads(edges, v, w)
    <2>1. PICK D : D = {s \in P : \A x \in ToSet(sccs[s]) : Leads(edges, v, x)}  OBVIOUS
    <2>2. \A s \in P : \A x, y \in ToSet(sccs[s]) : Leads(edges, x, y)
      BY <1>1 DEF ConnectInv, Components
    <2>3. mapping(v) \in D
      <3>1. mapping(v) \in P /\ v \in ToSet(sccs[mapping(v)])  BY <1>0, <1>1, HasRun
      <3>. QED  BY <2>1, <2>2, <3>1
    <2>4. ASSUME NEW s \in D PROVE SccTargets(s) \subseteq D
      <3>1. SUFFICES ASSUME NEW t \in SccTargets(s) PROVE t \in D
        OBVIOUS
      <3>2. s \in DOMAIN sccs  BY <1>1, <2>1
      <3>3. PICK x \in ToSet(sccs[s]) : \E u \in ToSet(edges[x]) : t = mapping(u)
        BY <1>0, <3>2, SccTargetsAre
      <3>4. PICK u \in ToSet(edges[x]) : t = mapping(u)  BY <3>3
      <3>5. sccs[s] \in Seq(Nodes)  BY <3>2 DEF ConnectInv, SccTypes
      <3>6. x \in Nodes /\ x \in DOMAIN edges  BY <3>5 DEF ToSet, Nodes
      <3>7. u \in Nodes  BY <1>0, <3>6, EdgesGoDown
      <3>8. t \in P /\ u \in ToSet(sccs[t])  BY <1>0, <1>1, <3>4, <3>7, HasRun
      <3>9. Leads(edges, v, x)  BY <2>1
      <3>10. Leads(edges, x, u)  BY <3>6, LeadsEdge
      <3>11. Leads(edges, v, u)  BY <3>9, <3>10, LeadsOn
      <3>12. \A y \in ToSet(sccs[t]) : Leads(edges, v, y)  BY <2>2, <3>8, <3>11, LeadsOn
      <3>. QED  BY <2>1, <3>8, <3>12
    <2>5. Keeps(R, SUBSET D, N)  BY <1>7, <2>4 DEF Keeps, Searched, Open
    <2>6. R[0] \in SUBSET D  BY <1>1, <1>7, <2>3
    <2>7. \A n \in 0..N : R[n] \in SUBSET D  BY <1>2, <2>5, <2>6, ChainKeeps
    <2>8. tgt \in D  BY <1>11, <1>14, <2>7
    <2>9. w \in ToSet(sccs[tgt])  BY <1>0, <1>1, HasRun
    <2>. QED  BY <2>1, <2>8, <2>9
  <1>15. ASSUME Leads(edges, v, w), tgt \notin R[N] PROVE FALSE
    <2>1. PICK X : X = {x \in Nodes : mapping(x) \in R[N] \/ mapping(x) < tgt}  OBVIOUS
    <2>2. X \in SUBSET DOMAIN edges /\ v \in X  BY <1>13, <2>1 DEF Nodes
    <2>3. ASSUME NEW x \in X, NEW y \in ToSet(edges[x]) PROVE y \in X
      <3>1. x \in Nodes  BY <2>1
      <3>2. y \in Nodes /\ mapping(y) <= mapping(x)  BY <1>0, <3>1, EdgesGoDown
      <3>3. mapping(x) \in P /\ mapping(y) \in P /\ x \in ToSet(sccs[mapping(x)])
        BY <1>0, <1>1, <3>1, <3>2, HasRun
      <3>4. CASE mapping(x) < tgt
        <4>1. mapping(y) < tgt  BY <1>2, <3>2, <3>3, <3>4
        <4>. QED  BY <2>1, <3>2, <4>1
      <3>5. CASE ~(mapping(x) < tgt)
        <4>1. mapping(x) \in R[N] /\ mapping(x) # tgt  BY <1>15, <2>1, <3>5
        <4>2. ~Passed(order, mapping(x), tgt)  BY <1>1, <1>2, <3>3, <3>5, PassedIsBelow
        <4>3. SccTargets(mapping(x)) \subseteq R[N]  BY <1>12, <4>1, <4>2
        <4>4. mapping(y) \in SccTargets(mapping(x))  BY <1>0, <1>1, <3>3, SccTargetsAre
        <4>. QED  BY <2>1, <3>2, <4>3, <4>4
      <3>. QED  BY <3>4, <3>5
    <2>4. w \in X  BY <1>15, <2>2, <2>3 DEF Leads
    <2>. QED  BY <1>1, <1>2, <1>15, <2>1, <2>4
  <1>. QED  BY <1>6, <1>14, <1>15
-----------------------------------------------------------------------------
(* shortest_cycle_back_to_self                                             *)

(* What holds of the first and of the next holds of all. *)
LEMMA Climb ==
    ASSUME NEW N \in Nat, NEW T \in SUBSET (1..N), N > 0 => 1 \in T,
           \A d \in 2..N : d - 1 \in T => d \in T
    PROVE  T = 1..N
  <1> DEFINE Bad == (1..N) \ T
  <1>1. SUFFICES ASSUME Bad # {} PROVE FALSE
    OBVIOUS
  <1>2. Bad \in SUBSET Nat  OBVIOUS
  <1>3. PICK m \in Bad : \A y \in Bad : m <= y
    <2>. HIDE DEF Bad
    <2>. QED  BY <1>1, <1>2, LeastNumber
  <1>4. m \in 2..N /\ m - 1 \in 1..N /\ ~(m <= m - 1)  BY <1>3
  <1>5. m - 1 \in T  BY <1>3, <1>4
  <1>. QED  BY <1>3, <1>4, <1>5

NextLevel(l) ==
    [reached |-> l.reached \cup Successors(l.frontier), frontier |-> Successors(l.frontier) \ l.reached]

Leveling(L, v, N) ==
    L = [d \in 1..N |-> IF d = 1 THEN [reached |-> {v}, frontier |-> {v}] ELSE NextLevel(L[d - 1])]

LEMMA SuccessorsIn ==
    ASSUME ConnectInv, NEW S \in SUBSET Nodes
    PROVE  /\ Successors(S) \subseteq Nodes
           /\ \A x \in S : \A y \in ToSet(edges[x]) : y \in Successors(S)
           /\ \A y \in Successors(S) : \E x \in S : y \in ToSet(edges[x])
           /\ \A T \in SUBSET S : Successors(T) \subseteq Successors(S)
  BY SccGraph, GraphIs DEF Successors

LEMMA LevelingExists ==
    ASSUME ConnectInv, NEW v \in Nodes, NEW N \in Nat \ {0}
    PROVE  \E L : Leveling(L, v, N)
  <1>1. PICK D : D = [reached : SUBSET Nodes, frontier : SUBSET Nodes]  OBVIOUS
  <1>2. PICK S : S = [reached |-> {v}, frontier |-> {v}]  OBVIOUS
  <1>3. S \in D  BY <1>1, <1>2
  <1>4. ASSUME NEW l \in D PROVE NextLevel(l) \in D
    <2>1. l.reached \in SUBSET Nodes /\ l.frontier \in SUBSET Nodes  BY <1>1
    <2>2. Successors(l.frontier) \in SUBSET Nodes  BY <2>1, SuccessorsIn
    <2>. QED  BY <1>1, <2>1, <2>2 DEF NextLevel
  <1>5. PICK G : G = [l \in D |-> NextLevel(l)]  OBVIOUS
  <1>6. G \in [D -> D] /\ \A l \in D : G[l] = NextLevel(l)  BY <1>4, <1>5
  <1>7. N - 1 \in Nat  OBVIOUS
  <1>8. PICK f \in [0..(N - 1) -> D] : IsChain(f, S, G, N - 1)  BY <1>3, <1>6, <1>7, ChainExists
  <1>9. PICK L : L = [d \in 1..N |-> f[d - 1]]  OBVIOUS
  <1>10. ASSUME NEW d \in 1..N
         PROVE  L[d] = IF d = 1 THEN S ELSE NextLevel(L[d - 1])
    <2>1. CASE d = 1
      <3>1. L[d] = f[0]  BY <1>9, <2>1
      <3>. QED  BY <1>8, <2>1, <3>1 DEF IsChain
    <2>2. CASE d # 1
      <3>1. d - 1 \in 1..(N - 1) /\ d - 1 \in 1..N /\ (d - 1) - 1 \in 0..(N - 1)  BY <2>2
      <3>2. f[d - 1] = G[f[(d - 1) - 1]]  BY <1>8, <3>1 DEF IsChain
      <3>3. f[(d - 1) - 1] \in D  BY <1>8, <3>1
      <3>4. L[d] = f[d - 1] /\ L[d - 1] = f[(d - 1) - 1]  BY <1>9, <3>1
      <3>. QED  BY <1>6, <2>2, <3>2, <3>3, <3>4
    <2>. QED  BY <2>1, <2>2
  <1>11. L = [d \in 1..N |-> L[d]]  BY <1>9
  <1>12. Leveling(L, v, N)  BY <1>2, <1>10, <1>11 DEF Leveling
  <1>. QED  BY <1>12

(* The levels: R what is reached, F the last of it. *)
Level(R, F, v, N) ==
    /\ R[1] = {v} /\ F[1] = {v}
    /\ \A d \in 2..N : /\ R[d] = R[d - 1] \cup Successors(F[d - 1])
                       /\ F[d] = Successors(F[d - 1]) \ R[d - 1]

LEMMA LevelsAre ==
    ASSUME ConnectInv, NEW v \in Nodes
    PROVE  \E R, F : /\ Level(R, F, v, Len(edges))
                     /\ \A d \in 1..Len(edges) : Levels(v)[d].frontier = F[d]
  <1>1. PICK N : N = Len(edges)  OBVIOUS
  <1>2. N \in Nat \ {0}
    <2>1. N \in Nat /\ v \in 1..N  BY <1>1, SccGraph, GraphIs
    <2>. QED  BY <2>1
  <1>3. PICK L : L = CHOOSE f : Leveling(f, v, N)  OBVIOUS
  <1>4. Leveling(L, v, N)  BY <1>2, <1>3, LevelingExists
  <1>5. Levels(v) = L  BY <1>1, <1>3 DEF Levels, Leveling, NextLevel
  <1>6. PICK R, F : R = [d \in 1..N |-> L[d].reached] /\ F = [d \in 1..N |-> L[d].frontier]
    OBVIOUS
  <1>7. R[1] = {v} /\ F[1] = {v}
    <2>1. 1 \in 1..N  BY <1>2
    <2>2. L[1] = [reached |-> {v}, frontier |-> {v}]  BY <1>4, <2>1 DEF Leveling
    <2>. QED  BY <1>6, <2>1, <2>2
  <1>8. ASSUME NEW d \in 2..N
        PROVE  R[d] = R[d - 1] \cup Successors(F[d - 1]) /\ F[d] = Successors(F[d - 1]) \ R[d - 1]
    <2>1. d \in 1..N /\ d # 1 /\ d - 1 \in 1..N  BY <1>2
    <2>2. L[d] = NextLevel(L[d - 1])  BY <1>4, <2>1 DEF Leveling
    <2>3. R[d] = L[d].reached /\ F[d] = L[d].frontier  BY <1>6, <2>1
    <2>4. R[d - 1] = L[d - 1].reached /\ F[d - 1] = L[d - 1].frontier  BY <1>6, <2>1
    <2>. QED  BY <2>2, <2>3, <2>4 DEF NextLevel
  <1>9. \A d \in 1..N : Levels(v)[d].frontier = F[d]  BY <1>5, <1>6
  <1>10. Level(R, F, v, N)  BY <1>7, <1>8 DEF Level
  <1>. QED  BY <1>1, <1>9, <1>10

(* All that is reached before the last level leads on into it. *)
LEMMA LevelFacts ==
    ASSUME ConnectInv, NEW v \in Nodes, NEW N \in Nat \ {0}, NEW R, NEW F, Level(R, F, v, N)
    PROVE  /\ \A d \in 1..N : R[d] \in SUBSET Nodes /\ F[d] \subseteq R[d] /\ v \in R[d]
           /\ \A d \in 1..N : Successors(R[d] \ F[d]) \subseteq R[d]
           /\ \A d \in 1..N : \A x \in R[d] : \E e \in 1..d : x \in F[e]
  <1>. USE DEF Level
  <1>0. \A d \in 2..N : d - 1 \in 1..N /\ d \in 1..N  OBVIOUS
  <1>1. ASSUME NEW d \in 1..N PROVE R[d] \in SUBSET Nodes /\ F[d] \subseteq R[d] /\ v \in R[d]
    <2>1. PICK T : T = {e \in 1..N : R[e] \in SUBSET Nodes /\ F[e] \subseteq R[e] /\ v \in R[e]}
      OBVIOUS
    <2>2. 1 \in T  BY <2>1
    <2>3. ASSUME NEW e \in 2..N, e - 1 \in T PROVE e \in T
      <3>1. R[e - 1] \in SUBSET Nodes /\ F[e - 1] \in SUBSET Nodes /\ v \in R[e - 1]  BY <2>1, <2>3
      <3>2. Successors(F[e - 1]) \subseteq Nodes  BY <3>1, SuccessorsIn
      <3>. QED  BY <1>0, <2>1, <3>1, <3>2
    <2>4. T \in SUBSET (1..N)  BY <2>1
    <2>5. T = 1..N  BY <2>2, <2>3, <2>4, Climb
    <2>. QED  BY <2>1, <2>5
  <1>2. ASSUME NEW d \in 1..N PROVE Successors(R[d] \ F[d]) \subseteq R[d]
    <2>1. PICK T : T = {e \in 1..N : Successors(R[e] \ F[e]) \subseteq R[e]}  OBVIOUS
    <2>2. 1 \in T  BY <2>1 DEF Successors
    <2>3. ASSUME NEW e \in 2..N, e - 1 \in T PROVE e \in T
      <3>1. e - 1 \in 1..N /\ e \in 1..N  BY <1>0
      <3>2. R[e - 1] \in SUBSET Nodes /\ F[e - 1] \subseteq R[e - 1]  BY <1>1, <3>1
      <3>3. R[e] \ F[e] = R[e - 1]  OBVIOUS
      <3>4. Successors(R[e - 1] \ F[e - 1]) \subseteq R[e - 1]  BY <2>1, <2>3
      <3>5. Successors(R[e - 1]) \subseteq Successors(R[e - 1] \ F[e - 1]) \cup Successors(F[e - 1])
        BY DEF Successors
      <3>. QED  BY <2>1, <3>1, <3>3, <3>4, <3>5
    <2>4. T \in SUBSET (1..N)  BY <2>1
    <2>5. T = 1..N  BY <2>2, <2>3, <2>4, Climb
    <2>. QED  BY <2>1, <2>5
  <1>3. ASSUME NEW d \in 1..N PROVE \A x \in R[d] : \E e \in 1..d : x \in F[e]
    <2>1. PICK T : T = {c \in 1..N : \A x \in R[c] : \E e \in 1..c : x \in F[e]}  OBVIOUS
    <2>2. 1 \in T  BY <2>1
    <2>3. ASSUME NEW c \in 2..N, c - 1 \in T PROVE c \in T
      <3>1. ASSUME NEW x \in R[c] PROVE \E e \in 1..c : x \in F[e]
        <4>1. CASE x \in R[c - 1]
          <5>1. PICK e \in 1..(c - 1) : x \in F[e]  BY <2>1, <2>3, <4>1
          <5>2. e \in 1..c  OBVIOUS
          <5>. QED  BY <5>1, <5>2
        <4>2. CASE x \notin R[c - 1]
          <5>1. x \in F[c] /\ c \in 1..c  BY <3>1, <4>2
          <5>. QED  BY <5>1
        <4>. QED  BY <4>1, <4>2
      <3>. QED  BY <1>0, <2>1, <3>1
    <2>4. T \in SUBSET (1..N)  BY <2>1
    <2>5. T = 1..N  BY <2>2, <2>3, <2>4, Climb
    <2>. QED  BY <2>1, <2>5
  <1>. QED  BY <1>1, <1>2, <1>3
(* As many levels as there are nodes reach all there is to reach. *)
LEMMA LevelsEnd ==
    ASSUME ConnectInv, NEW v \in Nodes, NEW N \in Nat \ {0}, N = Len(edges),
           NEW R, NEW F, Level(R, F, v, N)
    PROVE  Successors(R[N]) \subseteq R[N]
  <1>0. \A d \in 2..N : d - 1 \in 1..N /\ d \in 1..N  OBVIOUS
  <1>1. /\ \A d \in 1..N : R[d] \in SUBSET Nodes /\ F[d] \subseteq R[d] /\ v \in R[d]
        /\ \A d \in 1..N : Successors(R[d] \ F[d]) \subseteq R[d]
    BY LevelFacts
  <1>2. N \in 1..N  OBVIOUS
  <1>3. CASE \E m \in 1..N : F[m] = {}
    <2>1. PICK m \in 1..N : F[m] = {}  BY <1>3
    <2>2. PICK T : T = {d \in 1..N : d < m \/ F[d] = {}}  OBVIOUS
    <2>3. 1 \in T
      <3>1. CASE m = 1  BY <2>1, <2>2, <3>1
      <3>2. CASE m # 1  BY <2>2, <3>2
      <3>. QED  BY <3>1, <3>2
    <2>4. ASSUME NEW d \in 2..N, d - 1 \in T PROVE d \in T
      <3>1. CASE d < m  BY <1>0, <2>2, <3>1
      <3>2. CASE d = m  BY <2>1, <2>2, <3>2
      <3>3. CASE d > m
        <4>1. F[d - 1] = {}  BY <2>2, <2>4, <3>3
        <4>2. Successors(F[d - 1]) = {}  BY <4>1 DEF Successors
        <4>3. F[d] = {}  BY <4>2 DEF Level
        <4>. QED  BY <1>0, <2>2, <4>3
      <3>. QED  BY <3>1, <3>2, <3>3
    <2>5. T \in SUBSET (1..N)  BY <2>2
    <2>6. T = 1..N  BY <2>3, <2>4, <2>5, Climb
    <2>7. F[N] = {}  BY <1>2, <2>1, <2>2, <2>6
    <2>8. R[N] \ F[N] = R[N]  BY <2>7
    <2>. QED  BY <1>1, <1>2, <2>8
  <1>4. CASE \A m \in 1..N : F[m] # {}
    <2>0. IsFiniteSet(Nodes) /\ Cardinality(Nodes) = N  BY SccGraph, GraphIs
    <2>1. \A d \in 1..N : IsFiniteSet(R[d]) /\ Cardinality(R[d]) \in Nat
      BY <1>1, <2>0, FS_Subset, FS_CardinalityType
    <2>2. PICK T : T = {d \in 1..N : Cardinality(R[d]) >= d}  OBVIOUS
    <2>3. 1 \in T
      <3>1. R[1] = {v} /\ 1 \in 1..N  BY DEF Level
      <3>2. Cardinality(R[1]) = 1  BY <3>1, FS_Singleton
      <3>3. Cardinality(R[1]) >= 1 /\ 1 \in 1..N  BY <3>1, <3>2
      <3>. QED  BY <2>2, <3>3
    <2>4. ASSUME NEW d \in 2..N, d - 1 \in T PROVE d \in T
      <3>1. R[d] = R[d - 1] \cup Successors(F[d - 1]) /\ F[d] = Successors(F[d - 1]) \ R[d - 1]
        BY DEF Level
      <3>2. d - 1 \in 1..N /\ d \in 1..N  BY <1>0
      <3>3. R[d - 1] \subseteq R[d] /\ R[d - 1] # R[d]  BY <1>4, <3>1, <3>2
      <3>4. Cardinality(R[d - 1]) <= Cardinality(R[d]) /\ Cardinality(R[d - 1]) # Cardinality(R[d])
        BY <2>1, <3>2, <3>3, FS_Subset
      <3>5. Cardinality(R[d - 1]) >= d - 1  BY <2>2, <2>4
      <3>6. Cardinality(R[d]) >= d  BY <2>1, <3>2, <3>4, <3>5
      <3>. QED  BY <2>2, <3>2, <3>6
    <2>5. T \in SUBSET (1..N)  BY <2>2
    <2>6. T = 1..N  BY <2>3, <2>4, <2>5, Climb
    <2>7. Cardinality(R[N]) >= N  BY <1>2, <2>2, <2>6
    <2>8. R[N] \subseteq Nodes  BY <1>1, <1>2
    <2>9. Cardinality(R[N]) <= Cardinality(Nodes)  BY <2>0, <2>8, FS_Subset
    <2>10. Cardinality(R[N]) = Cardinality(Nodes)  BY <1>2, <2>0, <2>1, <2>7, <2>9
    <2>11. R[N] = Nodes  BY <2>0, <2>8, <2>10, FS_Subset
    <2>. QED  BY <2>11, SuccessorsIn
  <1>. QED  BY <1>3, <1>4

(* So a node that reaches itself is found again. *)
LEMMA CycleFound ==
    ASSUME ConnectInv, NEW v \in Nodes, NEW N \in Nat \ {0}, N = Len(edges),
           NEW R, NEW F, Level(R, F, v, N), v \in ReachedFrom(edges, v)
    PROVE  \E d \in 1..N : v \in Successors(F[d])
  <1>1. SUFFICES ASSUME \A d \in 1..N : v \notin Successors(F[d]) PROVE FALSE
    OBVIOUS
  <1>2. N \in 1..N  OBVIOUS
  <1>3. R[N] \in SUBSET Nodes /\ v \in R[N]  BY <1>2, LevelFacts
  <1>4. Successors(R[N]) \subseteq R[N]  BY LevelsEnd
  <1>5. ASSUME NEW x \in R[N] PROVE v \notin ToSet(edges[x])
    <2>1. PICK e \in 1..N : x \in F[e]  BY <1>2, LevelFacts
    <2>2. F[e] \in SUBSET Nodes  BY LevelFacts
    <2>. QED  BY <1>1, <2>1, <2>2, SuccessorsIn
  <1>6. PICK X : X = R[N] \ {v}  OBVIOUS
  <1>7. \A x \in R[N] : ToSet(edges[x]) \subseteq X  BY <1>3, <1>4, <1>5, <1>6, SuccessorsIn
  <1>8. ToSet(edges[v]) \subseteq X /\ \A x \in X : ToSet(edges[x]) \subseteq X  BY <1>3, <1>6, <1>7
  <1>9. ReachedFrom(edges, v) \subseteq X  BY <1>8, SccGraph, ReachedLeast
  <1>. QED  BY <1>6, <1>9

(* Paths of k edges from v. *)
Paths(W, v, n) == W = [k \in 0..n |-> IF k = 0 THEN {v} ELSE Successors(W[k - 1])]

LEMMA PathsExist ==
    ASSUME ConnectInv, NEW v \in Nodes, NEW n \in Nat
    PROVE  \E W : Paths(W, v, n)
  <1>1. PICK P, S : P = SUBSET Nodes /\ S = {v}  OBVIOUS
  <1>2. S \in P /\ \A r \in P : Successors(r) \in P  BY <1>1, SuccessorsIn
  <1>3. PICK G : G = [r \in P |-> Successors(r)]  OBVIOUS
  <1>4. G \in [P -> P] /\ \A r \in P : G[r] = Successors(r)  BY <1>2, <1>3
  <1>5. PICK f \in [0..n -> P] : IsChain(f, S, G, n)  BY <1>2, <1>4, ChainExists
  <1>6. ASSUME NEW k \in 0..n PROVE f[k] = IF k = 0 THEN S ELSE Successors(f[k - 1])
    <2>1. CASE k = 0  BY <1>5, <2>1 DEF IsChain
    <2>2. CASE k # 0
      <3>1. k \in 1..n /\ k - 1 \in 0..n  BY <2>2
      <3>2. f[k] = G[f[k - 1]] /\ f[k - 1] \in P  BY <1>5, <3>1 DEF IsChain
      <3>. QED  BY <1>4, <2>2, <3>2
    <2>. QED  BY <2>1, <2>2
  <1>7. f = [k \in 0..n |-> f[k]]  BY <1>5
  <1>8. Paths(f, v, n)  BY <1>1, <1>6, <1>7 DEF Paths
  <1>. QED  BY <1>8

LEMMA ShortestIs ==
    ASSUME ConnectInv, NEW v \in Nodes, v \in ReachedFrom(edges, v), NEW n, NEW W,
           n = shortest_cycle_back_to_self(v), n \in Nat => Paths(W, v, n)
    PROVE  n \in Nat /\ n > 0 /\ v \in W[n] /\ \A k \in 1..(n - 1) : v \notin W[k]
  <1>1. PICK N : N = Len(edges)  OBVIOUS
  <1>2. N \in Nat \ {0}
    <2>1. N \in Nat /\ v \in 1..N  BY <1>1, SccGraph, GraphIs
    <2>. QED  BY <2>1
  <1>3. PICK R, F : Level(R, F, v, N) /\ \A d \in 1..N : Levels(v)[d].frontier = F[d]
    BY <1>1, LevelsAre
  <1>4. PICK back : back = {d \in 1..N : v \in Successors(F[d])}  OBVIOUS
  <1>5. back = {d \in 1..Len(edges) : v \in Successors(Levels(v)[d].frontier)}
    BY <1>1, <1>3, <1>4
  <1>6. back # {}  BY <1>1, <1>2, <1>3, <1>4, CycleFound
  <1>7. \E d \in back : \A e \in back : d <= e
    <2>1. back \in SUBSET Nat  BY <1>4
    <2>. QED  BY <1>6, <2>1, LeastNumber
  <1>8. n = CHOOSE d \in back : \A e \in back : d <= e
    BY <1>5, <1>6 DEF shortest_cycle_back_to_self
  <1>9. n \in back /\ \A e \in back : n <= e  BY <1>7, <1>8
  <1>10. n \in 1..N /\ v \in Successors(F[n]) /\ n \in Nat /\ n > 0  BY <1>4, <1>9
  <1>11. W[0] = {v} /\ \A k \in 1..n : W[k] = Successors(W[k - 1])
    BY <1>10 DEF Paths
  <1>12. /\ \A d \in 1..N : R[d] \in SUBSET Nodes /\ F[d] \subseteq R[d]
         /\ \A d \in 1..N : Successors(R[d] \ F[d]) \subseteq R[d]
         /\ \A d \in 1..N : \A x \in R[d] : \E e \in 1..d : x \in F[e]
    BY <1>2, <1>3, LevelFacts
  <1>13. ASSUME NEW d \in 1..n PROVE F[d] \subseteq W[d - 1] /\ W[d - 1] \subseteq R[d]
    <2>1. PICK T : T = {e \in 1..n : F[e] \subseteq W[e - 1] /\ W[e - 1] \subseteq R[e]}  OBVIOUS
    <2>2. 1 \in T  BY <1>3, <1>10, <1>11, <2>1 DEF Level
    <2>3. ASSUME NEW e \in 2..n, e - 1 \in T PROVE e \in T
      <3>1. /\ e - 1 \in 1..n /\ e \in 1..n /\ e \in 2..N /\ e - 1 \in 1..N
            /\ F[e - 1] \subseteq W[(e - 1) - 1] /\ W[(e - 1) - 1] \subseteq R[e - 1]
        BY <1>2, <1>10, <2>1, <2>3
      <3>2. W[e - 1] = Successors(W[(e - 1) - 1])  BY <1>11, <3>1
      <3>3. R[e] = R[e - 1] \cup Successors(F[e - 1]) /\ F[e] = Successors(F[e - 1]) \ R[e - 1]
        BY <1>3, <3>1 DEF Level
      <3>4. Successors(F[e - 1]) \subseteq W[e - 1]  BY <3>1, <3>2 DEF Successors
      <3>5. Successors(R[e - 1]) \subseteq Successors(R[e - 1] \ F[e - 1]) \cup Successors(F[e - 1])
        BY DEF Successors
      <3>6. Successors(R[e - 1]) \subseteq R[e]  BY <1>12, <3>1, <3>3, <3>5
      <3>7. W[e - 1] \subseteq Successors(R[e - 1])  BY <3>1, <3>2 DEF Successors
      <3>. QED  BY <2>1, <3>1, <3>3, <3>4, <3>6, <3>7
    <2>4. T \in SUBSET (1..n)  BY <2>1
    <2>5. T = 1..n  BY <1>10, <2>2, <2>3, <2>4, Climb
    <2>. QED  BY <2>1, <2>5
  <1>14. v \in W[n]
    <2>1. n \in 1..n  BY <1>10
    <2>2. F[n] \subseteq W[n - 1] /\ W[n] = Successors(W[n - 1])  BY <1>11, <1>13, <2>1
    <2>. QED  BY <1>10, <2>2 DEF Successors
  <1>15. ASSUME NEW k \in 1..(n - 1), v \in W[k] PROVE FALSE
    <2>1. k \in 1..n /\ k \in 1..N /\ k < n  BY <1>2, <1>10
    <2>2. W[k] = Successors(W[k - 1]) /\ W[k - 1] \subseteq R[k]  BY <1>11, <1>13, <2>1
    <2>3. PICK u \in W[k - 1] : v \in ToSet(edges[u])  BY <1>15, <2>2 DEF Successors
    <2>4. PICK e \in 1..k : u \in F[e]  BY <1>12, <2>1, <2>2, <2>3
    <2>5. v \in Successors(F[e])  BY <2>3, <2>4 DEF Successors
    <2>6. e \in back  BY <1>2, <1>4, <2>1, <2>5
    <2>. QED  BY <1>9, <1>10, <2>1, <2>4, <2>6
  <1>. QED  BY <1>10, <1>14, <1>15

LEMMA AnswersAreExact == ASSUME ConnectInv, SortInv PROVE AnswersExact
  <1>1. SUFFICES ASSUME has_sorted, NEW v \in Nodes
                 PROVE  LET from == ReachedFrom(edges, v)
                            n == shortest_cycle_back_to_self(v)
                            Within[k \in 0 .. n] == IF k = 0 THEN {v} ELSE Successors(Within[k - 1])
                        IN /\ \A w \in Nodes, order \in {<<>>, sorted} :
                                 can_reach(order, v, w) <=> (w = v \/ w \in from)
                           /\ node_is_in_cycle(v) <=> v \in from
                           /\ v \in from => n > 0 /\ v \in Within[n] /\ \A k \in 1 .. n - 1 : v \notin Within[k]
    BY DEF AnswersExact
  <1>2. has_run /\ IsGraph(edges) /\ Nodes = DOMAIN edges  BY <1>1, HasSorted, SccGraph
  <1>3. ASSUME NEW w \in Nodes, NEW order \in {<<>>, sorted}
        PROVE  can_reach(order, v, w) <=> (w = v \/ w \in ReachedFrom(edges, v))
    <2>1. can_reach(order, v, w) <=> Leads(edges, v, w)  BY <1>1, CanReachIs
    <2>2. Leads(edges, v, w) <=> w = v \/ w \in ReachedFrom(edges, v)  BY <1>2, LeadsFirst
    <2>. QED  BY <2>1, <2>2
  <1>4. node_is_in_cycle(v) <=> v \in ReachedFrom(edges, v)  BY <1>2, InCycle
  <1>5. PICK n, W : n = shortest_cycle_back_to_self(v) /\ W = CHOOSE f : Paths(f, v, n)  OBVIOUS
  <1>6. n \in Nat => Paths(W, v, n)  BY <1>5, PathsExist
  <1>7. v \in ReachedFrom(edges, v) => n > 0 /\ v \in W[n] /\ \A k \in 1 .. n - 1 : v \notin W[k]
    BY <1>5, <1>6, ShortestIs
  <1>8. W = CHOOSE f : f = [k \in 0 .. n |-> IF k = 0 THEN {v} ELSE Successors(f[k - 1])]
    BY <1>5 DEF Paths
  <1>. QED  BY <1>3, <1>4, <1>5, <1>7, <1>8
-----------------------------------------------------------------------------
(* The call graph is built.                                                *)

LEMMA SetToSeqIs ==
    ASSUME NEW S, IsFiniteSet(S)
    PROVE  SetToSeq(S) \in Seq(S) /\ ToSet(SetToSeq(S)) = S
  <1>1. PICK n : n = Cardinality(S)  OBVIOUS
  <1>2. n \in Nat /\ ExistsBijection(1..n, S)  BY <1>1, FS_CardinalityType
  <1>3. PICK b : b \in Bijection(1..n, S)  BY <1>2 DEF ExistsBijection
  <1>4. b \in [1..n -> S] /\ IsInjective(b)  BY <1>3 DEF Bijection, Injection
  <1>5. PICK s : s = SetToSeq(S)  OBVIOUS
  <1>6. s \in [1..n -> S] /\ IsInjective(s)  BY <1>1, <1>4, <1>5 DEF SetToSeq
  <1>7. s \in Injection(1..n, S)  BY <1>6 DEF Injection
  <1>8. Cardinality(1..n) = n
    <2>1. 1 \in Int /\ n \in Int  BY <1>2
    <2>2. Cardinality(1..n) = IF 1 > n THEN 0 ELSE n - 1 + 1  BY <2>1, FS_Interval
    <2>. QED  BY <1>2, <2>2
  <1>9. s \in Surjection(1..n, S)  BY <1>1, <1>7, <1>8, FS_Injection
  <1>10. \A t \in S : \E i \in 1..n : s[i] = t  BY <1>9 DEF Surjection
  <1>11. s \in Seq(S)  BY <1>2, <1>6, IsASeq
  <1>12. DOMAIN s = 1..n  BY <1>6
  <1>13. ToSet(s) = S  BY <1>6, <1>10, <1>12 DEF ToSet
  <1>. QED  BY <1>5, <1>11, <1>13

LEMMA ConcatIs ==
    ASSUME NEW S, NEW s \in Seq(S), NEW t \in Seq(S)
    PROVE  s \o t \in Seq(S) /\ ToSet(s \o t) = ToSet(s) \cup ToSet(t)
  <1>1. /\ s \o t \in Seq(S) /\ Len(s \o t) = Len(s) + Len(t) /\ DOMAIN (s \o t) = 1..(Len(s) + Len(t))
        /\ Len(s) \in Nat /\ Len(t) \in Nat /\ DOMAIN s = 1..Len(s) /\ DOMAIN t = 1..Len(t)
    OBVIOUS
  <1>2. \A i \in 1..(Len(s) + Len(t)) : (s \o t)[i] = IF i <= Len(s) THEN s[i] ELSE t[i - Len(s)]
    OBVIOUS
  <1>3. ASSUME NEW x \in ToSet(s \o t) PROVE x \in ToSet(s) \cup ToSet(t)
    <2>1. PICK i \in 1..(Len(s) + Len(t)) : x = (s \o t)[i]  BY <1>1, <1>3 DEF ToSet
    <2>2. CASE i <= Len(s)
      <3>1. i \in DOMAIN s /\ x = s[i]  BY <1>1, <1>2, <2>1, <2>2
      <3>. QED  BY <3>1 DEF ToSet
    <2>3. CASE ~(i <= Len(s))
      <3>1. i - Len(s) \in DOMAIN t /\ x = t[i - Len(s)]  BY <1>1, <1>2, <2>1, <2>3
      <3>. QED  BY <3>1 DEF ToSet
    <2>. QED  BY <2>2, <2>3
  <1>4. ASSUME NEW x \in ToSet(s) PROVE x \in ToSet(s \o t)
    <2>1. PICK i \in DOMAIN s : x = s[i]  BY DEF ToSet
    <2>2. i \in DOMAIN (s \o t) /\ (s \o t)[i] = x  BY <1>1, <1>2, <2>1
    <2>. QED  BY <2>2 DEF ToSet
  <1>5. ASSUME NEW x \in ToSet(t) PROVE x \in ToSet(s \o t)
    <2>1. PICK i \in DOMAIN t : x = t[i]  BY DEF ToSet
    <2>2. PICK j : j = Len(s) + i  OBVIOUS
    <2>3. j \in 1..(Len(s) + Len(t)) /\ ~(j <= Len(s)) /\ j - Len(s) = i  BY <1>1, <2>1, <2>2
    <2>4. j \in DOMAIN (s \o t) /\ (s \o t)[j] = x  BY <1>1, <1>2, <2>1, <2>3
    <2>. QED  BY <2>4 DEF ToSet
  <1>. QED  BY <1>1, <1>3, <1>4, <1>5

LEMMA NodeOfIs ==
    ASSUME NEW ns, NEW x \in ToSet(ns)
    PROVE  NodeOf(ns, x) \in DOMAIN ns /\ ns[NodeOf(ns, x)] = x
  <1>1. \E v \in DOMAIN ns : ns[v] = x  BY DEF ToSet
  <1>. QED  BY <1>1 DEF NodeOf

(* The fields of a crate that the graph is built from. *)
LEMMA GraphTypes ==
    ASSUME WellFormedKrate(krate)
    PROVE  /\ \A f \in Funs \cup Impls : krate.instantiates[f] \subseteq Impls
           /\ \A i \in Impls : krate.trait[i] \in Traits
           /\ \A m \in krate.methods \cup krate.copies :
                 m.fun \in Funs /\ m.method \in Funs /\ m.impl \in Impls
           /\ \A g \in Groups : krate.members[g] \subseteq Funs \cup Groups
  <1>1. krate.instantiates \in [Funs \cup Impls -> SUBSET Impls]
    BY DEF WellFormedKrate, KrateRecords
  <1>2. krate.methods \in SUBSET Methods /\ krate.copies \in SUBSET Methods
    BY DEF WellFormedKrate, KrateRecords
  <1>3. \A m \in krate.methods \cup krate.copies :
           m.fun \in Funs /\ m.method \in Funs /\ m.impl \in Impls
    BY <1>2 DEF Methods
  <1>. QED  BY <1>1, <1>3, KrateTypes

LEMMA CallEdgesTypes ==
    ASSUME WellFormedKrate(krate), present \subseteq Items, NEW e \in CallEdges
    PROVE  e[1] \in Items /\ e[2] \in Items
  <1>1. Funs \cup Impls \cup Traits \cup Groups \subseteq Items  BY DEF Items
  <1>2. ASSUME NEW f \in present \cap Funs, e \in FunEdges(f) PROVE e[1] \in Items /\ e[2] \in Items
    <2>1. krate.instantiates[f] \subseteq Impls  BY GraphTypes
    <2>2. e \in {f} \X ((CalledBy(f) \cap (Funs \cup Groups \cup Traits)) \cup krate.instantiates[f])
      BY <1>2 DEF FunEdges
    <2>3. e[1] = f /\ e[2] \in (CalledBy(f) \cap (Funs \cup Groups \cup Traits)) \cup krate.instantiates[f]
      BY <2>2
    <2>. QED  BY <1>1, <2>1, <2>3
  <1>3. ASSUME NEW m \in krate.methods, e \in MethodEdges(m) PROVE e[1] \in Items /\ e[2] \in Items
    <2>1. PICK f, i, t : f = m.fun /\ i = m.impl /\ t = krate.trait[m.impl]  OBVIOUS
    <2>2. f \in Items /\ i \in Items /\ t \in Items  BY <1>1, <2>1, GraphTypes
    <2>3. e \in {<<i, f>>, <<f, t>>}  BY <1>3, <2>1 DEF MethodEdges
    <2>. QED  BY <2>2, <2>3
  <1>4. ASSUME NEW i \in present \cap Impls, e \in ImplEdges(i) PROVE e[1] \in Items /\ e[2] \in Items
    <2>1. krate.instantiates[i] \subseteq Impls /\ krate.trait[i] \in Traits  BY GraphTypes
    <2>2. e[1] = i /\ e[2] \in {krate.trait[i]} \cup (krate.instantiates[i] \ {i})
      BY <1>4 DEF ImplEdges
    <2>. QED  BY <1>1, <2>1, <2>2
  <1>5. ASSUME NEW t \in present \cap Traits, e \in TraitEdges(t) PROVE e[1] \in Items /\ e[2] \in Items
    <2>1. e[1] = t /\ e[2] \in (krate.decl[t] \cap Traits) \cup (krate.declares[t] \cap present)
      BY <1>5 DEF TraitEdges
    <2>. QED  BY <1>1, <2>1
  <1>6. ASSUME NEW g \in present \cap Groups, e \in GroupEdges(g) PROVE e[1] \in Items /\ e[2] \in Items
    <2>1. krate.members[g] \subseteq Funs \cup Groups  BY GraphTypes
    <2>2. e[1] = g /\ e[2] \in krate.members[g]  BY <1>6 DEF GroupEdges
    <2>. QED  BY <1>1, <2>1, <2>2
  <1>7. ASSUME NEW m \in krate.copies, e \in CopyEdges(m) PROVE e[1] \in Items /\ e[2] \in Items
    <2>1. ASSUME NEW i, NEW f \in Funs PROVE Redirected(i, f) \in Funs
      <3>1. PICK own : own = {k \in krate.methods : k.impl = i /\ k.method = f /\ k.fun \in present}
        OBVIOUS
      <3>2. PICK k : k = CHOOSE o \in own : TRUE  OBVIOUS
      <3>3. own # {} => k \in krate.methods  BY <3>1, <3>2
      <3>4. Redirected(i, f) = IF own = {} THEN f ELSE k.fun  BY <3>1, <3>2 DEF Redirected
      <3>. QED  BY <3>3, <3>4, GraphTypes
    <2>2. m.fun \in Funs /\ krate.instantiates[m.method] \subseteq Impls  BY GraphTypes
    <2>3. PICK R : R = {Redirected(m.impl, f) : f \in CalledBy(m.method) \cap Funs}  OBVIOUS
    <2>4. R \subseteq Funs  BY <2>1, <2>3
    <2>5. e[1] = m.fun /\ e[2] \in R \cup krate.instantiates[m.method]
      BY <1>7, <2>3 DEF CopyEdges
    <2>. QED  BY <1>1, <2>2, <2>4, <2>5
  <1>8. \/ \E f \in present \cap Funs : e \in FunEdges(f)
        \/ \E m \in krate.methods : e \in MethodEdges(m)
        \/ \E m \in krate.copies : e \in CopyEdges(m)
        \/ \E i \in present \cap Impls : e \in ImplEdges(i)
        \/ \E t \in present \cap Traits : e \in TraitEdges(t)
        \/ \E g \in present \cap Groups : e \in GroupEdges(g)
    BY DEF CallEdges
  <1>. QED  BY <1>2, <1>3, <1>4, <1>5, <1>6, <1>7, <1>8

(* The nodes are items, and every end of an edge is a node. *)
LEMMA CallNodesAre ==
    ASSUME WellFormedKrate(krate), present \subseteq Items
    PROVE  /\ CallNodes \in Seq(Items)
           /\ \A e \in CallEdges : e[1] \in ToSet(CallNodes) /\ e[2] \in ToSet(CallNodes)
  <1>1. PICK funs, first, ends :
           /\ funs = present \cap Funs
           /\ first = (funs \cap krate.spec) \cup (present \cap Impls)
           /\ ends = (present \cap (Funs \cup Impls \cup Groups \cup Traits))
                        \cup {e[2] : e \in CallEdges} \cup {e[1] : e \in CallEdges}
    OBVIOUS
  <1>2. PICK A, B, C, D :
           /\ A = funs \cap krate.spec /\ B = present \cap Impls
           /\ C = funs \ krate.spec /\ D = ends \ (funs \cup first)
    OBVIOUS
  <1>3. CallNodes = SetToSeq(A) \o SetToSeq(B) \o SetToSeq(C) \o SetToSeq(D)
    BY <1>1, <1>2 DEF CallNodes
  <1>4. A \subseteq Items /\ B \subseteq Items /\ C \subseteq Items /\ D \subseteq Items
    <2>1. ends \subseteq Items  BY <1>1, CallEdgesTypes
    <2>2. funs \subseteq Items  BY <1>1
    <2>. QED  BY <1>2, <2>1, <2>2
  <1>5. IsFiniteSet(Items)  BY KrateAssumption
  <1>6. ASSUME NEW S, S \subseteq Items PROVE SetToSeq(S) \in Seq(Items) /\ ToSet(SetToSeq(S)) = S
    <2>1. IsFiniteSet(S)  BY <1>5, <1>6, FS_Subset
    <2>2. SetToSeq(S) \in Seq(S) /\ ToSet(SetToSeq(S)) = S  BY <2>1, SetToSeqIs
    <2>. QED  BY <1>6, <2>2
  <1>7. PICK a, b, c, d : a = SetToSeq(A) /\ b = SetToSeq(B) /\ c = SetToSeq(C) /\ d = SetToSeq(D)
    OBVIOUS
  <1>8. /\ a \in Seq(Items) /\ b \in Seq(Items) /\ c \in Seq(Items) /\ d \in Seq(Items)
        /\ ToSet(a) = A /\ ToSet(b) = B /\ ToSet(c) = C /\ ToSet(d) = D
    BY <1>4, <1>6, <1>7
  <1>9. PICK ab : ab = a \o b  OBVIOUS
  <1>10. ab \in Seq(Items) /\ ToSet(ab) = A \cup B  BY <1>8, <1>9, ConcatIs
  <1>11. PICK abc : abc = ab \o c  OBVIOUS
  <1>12. abc \in Seq(Items) /\ ToSet(abc) = A \cup B \cup C  BY <1>8, <1>10, <1>11, ConcatIs
  <1>13. abc \o d \in Seq(Items) /\ ToSet(abc \o d) = A \cup B \cup C \cup D
    BY <1>8, <1>12, ConcatIs
  <1>14. CallNodes = abc \o d  BY <1>3, <1>7, <1>9, <1>11
  <1>15. ends \subseteq A \cup B \cup C \cup D  BY <1>1, <1>2
  <1>16. \A e \in CallEdges : e[1] \in ends /\ e[2] \in ends  BY <1>1
  <1>. QED  BY <1>13, <1>14, <1>15, <1>16

(* The implementation of a method that is left is a node. *)
LEMMA ImplOfIs ==
    ASSUME WellFormedKrate(krate), present \subseteq Items, NEW x \in Items, ImplOf[x] # NoImpl
    PROVE  ImplOf[x] \in ToSet(CallNodes)
  <1>1. x \in present /\ \E m \in krate.methods : m.fun = x  BY DEF ImplOf
  <1>2. PICK m : m = CHOOSE k \in krate.methods : k.fun = x  OBVIOUS
  <1>3. m \in krate.methods /\ m.fun = x  BY <1>1, <1>2
  <1>4. ImplOf[x] = m.impl  BY <1>1, <1>2 DEF ImplOf
  <1>5. PICK e : e = <<m.impl, m.fun>>  OBVIOUS
  <1>6. e \in MethodEdges(m) /\ e[1] = m.impl  BY <1>5 DEF MethodEdges
  <1>7. e \in CallEdges  BY <1>1, <1>3, <1>6 DEF CallEdges
  <1>. QED  BY <1>4, <1>6, <1>7, CallNodesAre

LEMMA BuildKeeps ==
    ASSUME CrateInv, BuildCallGraph
    PROVE  GraphInv'
  <1>0. WellFormedKrate(krate) /\ present \subseteq Items  BY DEF CrateInv
  <1>1. PICK ns, es, im : ns = CallNodes /\ es = CallEdges /\ im = ImplOf  OBVIOUS
  <1>2. /\ ns \in Seq(Items) /\ \A e \in es : e[1] \in ToSet(ns) /\ e[2] \in ToSet(ns)
        /\ \A x \in Items : im[x] # NoImpl => im[x] \in ToSet(ns)
    BY <1>0, <1>1, CallNodesAre, ImplOfIs
  <1>3. PICK K : K = DOMAIN ns  OBVIOUS
  <1>4. PICK graph :
           graph = [v \in DOMAIN ns |-> SetToSeq({NodeOf(ns, e[2]) : e \in {e \in es : e[1] = ns[v]}})]
    OBVIOUS
  <1>5. /\ graphStep' = "preliminary" /\ func_call_graph' = graph /\ Fresh(graph)
        /\ methodImpl' = [v \in DOMAIN ns |->
                           IF im[ns[v]] = NoImpl THEN 0 ELSE NodeOf(ns, im[ns[v]])]
    BY <1>1, <1>4 DEF BuildCallGraph, Build
  <1>6. Len(ns) \in Nat /\ K = 1..Len(ns) /\ \A v \in K : ns[v] \in Items  BY <1>2, <1>3
  <1>7. IsFiniteSet(K)
    <2>1. 1 \in Int /\ Len(ns) \in Int  BY <1>6
    <2>. QED  BY <1>6, <2>1, FS_Interval
  <1>8. ASSUME NEW v \in K PROVE graph[v] \in Seq(K)
    <2>1. PICK S : S = {NodeOf(ns, e[2]) : e \in {e \in es : e[1] = ns[v]}}  OBVIOUS
    <2>2. S \subseteq K  BY <1>2, <1>3, <2>1, NodeOfIs
    <2>3. IsFiniteSet(S)  BY <1>7, <2>2, FS_Subset
    <2>4. SetToSeq(S) \in Seq(S)  BY <2>3, SetToSeqIs
    <2>5. SetToSeq(S) \in Seq(K)  BY <2>2, <2>4
    <2>. QED  BY <1>3, <1>4, <2>1, <2>5
  <1>9. DOMAIN graph = K  BY <1>3, <1>4
  <1>10. graph \in Seq(Seq(K))
    <2>1. graph \in [1..Len(ns) -> Seq(K)]
      <3>1. graph = [v \in K |-> graph[v]]  BY <1>3, <1>4
      <3>. QED  BY <1>6, <1>8, <3>1
    <2>. QED  BY <1>6, <2>1, IsASeq
  <1>11. graph \in Seq(Seq(DOMAIN graph))  BY <1>9, <1>10
  <1>12. ConnectInv' /\ SortInv'  BY <1>5, <1>11, FreshInv
  <1>13. edges' = graph  BY <1>5 DEF Fresh
  <1>14. Nodes' = K  BY <1>9, <1>13 DEF Nodes
  <1>15. ASSUME NEW v \in K
         PROVE  (IF im[ns[v]] = NoImpl THEN 0 ELSE NodeOf(ns, im[ns[v]])) \in K \cup {0}
    <2>1. ns[v] \in Items  BY <1>6
    <2>2. im[ns[v]] # NoImpl => NodeOf(ns, im[ns[v]]) \in K  BY <1>2, <1>3, <2>1, NodeOfIs
    <2>. QED  BY <2>2
  <1>16. methodImpl' \in [K -> K \cup {0}]  BY <1>3, <1>5, <1>15
  <1>17. NoneLeadsBack'  BY <1>5, <1>13 DEF NoneLeadsBack
  <1>. QED  BY <1>5, <1>9, <1>11, <1>12, <1>14, <1>16, <1>17 DEF GraphInv

-----------------------------------------------------------------------------
(* The steps on it.                                                        *)

LEMMA GraphInitInv == ASSUME GraphInit PROVE GraphInv
  <1>1. /\ edges = <<>> /\ index = <<>> /\ lowlink = <<>> /\ edge = <<>>
        /\ on_stack = {} /\ stack = <<>> /\ counter = 0 /\ sccs = <<>>
        /\ root = 1 /\ active = <<>>
        /\ sort_root = 1 /\ sorting = <<>> /\ visited = {} /\ sorted = <<>>
        /\ graphStep = "none" /\ func_call_graph = <<>>
    BY DEF GraphInit
  <1>2. Nodes = {} /\ Len(edges) = 0 /\ Len(sccs) = 0 /\ DOMAIN sccs = {}  BY <1>1 DEF Nodes
  <1>3. Seen = {} /\ Calls = {}  BY <1>1, <1>2 DEF Seen, Calls, ToSet
  <1>4. SccTypes
    <2>1. counter = Cardinality(Seen)  BY <1>1, <1>3, FS_EmptySet
    <2>2. index \in [Nodes -> Nat] /\ lowlink \in [Nodes -> Nat] /\ edge \in [Nodes -> Nat \ {0}]
      BY <1>1, <1>2
    <2>3. root \in 1 .. Len(edges) + 1  BY <1>1, <1>2
    <2>4. edges \in Seq(Seq(Nodes)) /\ stack \in Seq(Nodes) /\ sccs \in Seq(Seq(Nodes))
          /\ active \in Seq(Nodes)
      BY <1>1
    <2>. QED  BY <1>1, <2>1, <2>2, <2>3, <2>4 DEF SccTypes
  <1>5. Numbered  BY <1>2, <1>3 DEF Numbered
  <1>6. OnStack /\ InCall  BY <1>1, <1>3 DEF OnStack, InCall, ToSet
  <1>7. Progressed  BY <1>2, <1>3 DEF Progressed
  <1>8. LowSound /\ StackLeads /\ LowComplete  BY <1>1, <1>3 DEF LowSound, StackLeads, LowComplete
  <1>9. Components  BY <1>2, <1>3 DEF Components
  <1>10. SortInv
    <2>1. 1 .. 1 - 1 = {} /\ 1 - 1 = 0 /\ <<>> \in Seq(Nodes)  OBVIOUS
    <2>. QED  BY <1>1, <1>2, <2>1 DEF SortInv
  <1>11. func_call_graph \in Seq(Seq(DOMAIN func_call_graph))  BY <1>1
  <1>. QED  BY <1>1, <1>4, <1>5, <1>6, <1>7, <1>8, <1>9, <1>10, <1>11 DEF ConnectInv, GraphInv

LEMMA SortKeeps == ASSUME GraphInv, Sort PROVE GraphInv'
  <1>1. ConnectInv' /\ SortInv'  BY SccStepKeeps DEF GraphInv, Sort
  <1>2. UNCHANGED <<graphStep, methodImpl, func_call_graph>>  BY DEF Sort, callVars
  <1>3. edges' = edges
    BY DEF Sort, SccStep, compute_sccs, VisitRoot, SkipRoot, Call, Look, Return, Enter,
       sort_sccs, sort_sccs_node
  <1>4. Nodes' = Nodes  BY <1>3 DEF Nodes
  <1>5. NoneLeadsBack => NoneLeadsBack'  BY <1>2, <1>3, <1>4 DEF NoneLeadsBack
  <1>. QED  BY <1>1, <1>2, <1>4, <1>5 DEF GraphInv

(* While edges are added the components stay. *)
LEMMA SccFrozen ==
    ASSUME GraphInv, UNCHANGED sccVars
    PROVE  ConnectInv' /\ SortInv' /\ edges' = edges /\ Nodes' = Nodes
  <1>1. edges' = edges /\ UNCHANGED connectVars  BY DEF sccVars
  <1>2. ConnectInv'  BY <1>1, ConnectFrozen DEF GraphInv
  <1>3. SortInv'  BY SortFrozen DEF GraphInv
  <1>. QED  BY <1>1, <1>2, <1>3 DEF Nodes

LEMMA AddEdgeKeeps == ASSUME GraphInv, AddEdge PROVE GraphInv'
  <1>0. UNCHANGED <<sccVars, graphStep, methodImpl>> /\ graphStep = "preliminary" /\ has_sorted
    BY DEF AddEdge, Adding
  <1>1. /\ ConnectInv' /\ SortInv' /\ edges' = edges /\ Nodes' = Nodes
        /\ graphStep' = graphStep /\ methodImpl' = methodImpl
    BY <1>0, SccFrozen
  <1>2. PICK g : g = func_call_graph  OBVIOUS
  <1>3. ConnectInv /\ SortInv  BY DEF GraphInv
  <1>4. g \in Seq(Seq(Nodes)) /\ DOMAIN g = Nodes /\ methodImpl \in [Nodes -> Nodes \cup {0}]
    BY <1>0, <1>2 DEF GraphInv
  <1>5. PICK x, t : /\ x = get_scc_nodes(sorted[scc])[f4] /\ t = methodImpl[edges[x][f1]]
    OBVIOUS
  <1>6. /\ scc \in DOMAIN sorted /\ f4 \in DOMAIN get_scc_nodes(sorted[scc])
        /\ f1 \in DOMAIN edges[x]
        /\ \/ func_call_graph' = g
           \/ /\ t # 0 /\ ~can_reach(sorted, t, x)
              /\ func_call_graph' = [g EXCEPT ![x] = Append(@, t)]
    BY <1>2, <1>5 DEF AddEdge
  <1>7. x \in Nodes
    <2>1. sorted \in Seq(Nodes)  BY <1>3 DEF SortInv
    <2>2. sorted[scc] \in Nodes  BY <1>6, <2>1
    <2>3. mapping(sorted[scc]) \in DOMAIN sccs  BY <1>0, <1>3, <2>2, HasSorted, HasRun
    <2>4. get_scc_nodes(sorted[scc]) \in Seq(Nodes)
      BY <1>3, <2>3 DEF get_scc_nodes, ConnectInv, SccTypes
    <2>. QED  BY <1>5, <1>6, <2>4
  <1>8. t \in Nodes \cup {0}
    <2>1. edges[x] \in Seq(Nodes)  BY <1>3, <1>7 DEF ConnectInv, SccTypes, Nodes
    <2>2. edges[x][f1] \in Nodes  BY <1>6, <2>1
    <2>. QED  BY <1>4, <1>5, <2>2
  <1>9. func_call_graph' \in Seq(Seq(Nodes)) /\ DOMAIN func_call_graph' = Nodes
    <2>1. CASE func_call_graph' = g  BY <1>4, <2>1
    <2>2. CASE t # 0 /\ func_call_graph' = [g EXCEPT ![x] = Append(@, t)]
      <3>1. g[x] \in Seq(Nodes) /\ t \in Nodes  BY <1>4, <1>7, <1>8, <2>2
      <3>2. PICK l : l = Append(g[x], t)  OBVIOUS
      <3>3. l \in Seq(Nodes)  BY <3>1, <3>2
      <3>4. func_call_graph' = [g EXCEPT ![x] = l]  BY <2>2, <3>2
      <3>. QED  BY <1>4, <1>7, <3>3, <3>4
    <2>. QED  BY <1>6, <2>1, <2>2
  <1>10. NoneLeadsBack'
    <2>1. NoneLeadsBack  BY <1>0 DEF GraphInv
    <2>2. CASE func_call_graph' = g  BY <1>1, <1>2, <2>1, <2>2 DEF NoneLeadsBack
    <2>3. CASE /\ t # 0 /\ ~can_reach(sorted, t, x)
               /\ func_call_graph' = [g EXCEPT ![x] = Append(@, t)]
      <3>1. g[x] \in Seq(Nodes) /\ t \in Nodes  BY <1>4, <1>7, <1>8, <2>3
      <3>2. ~Leads(edges, t, x)  BY <1>0, <1>3, <1>7, <2>3, <3>1, CanReachIs
      <3>3. PICK l : l = Append(g[x], t)  OBVIOUS
      <3>4. ToSet(l) = ToSet(g[x]) \cup {t}  BY <3>1, <3>3, AppendIs
      <3>5. func_call_graph' = [g EXCEPT ![x] = l]  BY <2>3, <3>3
      <3>6. ASSUME NEW v \in Nodes, NEW i \in ToSet(func_call_graph'[v]) \ ToSet(edges[v])
            PROVE  ~Leads(edges, i, v)
        <4>1. CASE v = x
          <5>1. func_call_graph'[v] = l  BY <1>4, <3>5, <4>1
          <5>2. i = t \/ i \in ToSet(g[v]) \ ToSet(edges[v])  BY <3>4, <3>6, <4>1, <5>1
          <5>. QED  BY <1>2, <2>1, <3>2, <4>1, <5>2 DEF NoneLeadsBack
        <4>2. CASE v # x
          <5>1. func_call_graph'[v] = g[v]  BY <1>4, <3>5, <4>2
          <5>. QED  BY <1>2, <2>1, <3>6, <5>1 DEF NoneLeadsBack
        <4>. QED  BY <4>1, <4>2
      <3>. QED  BY <1>1, <3>6 DEF NoneLeadsBack
    <2>. QED  BY <1>6, <2>2, <2>3
  <1>. QED  BY <1>1, <1>4, <1>9, <1>10 DEF GraphInv

LEMMA NextKeeps == ASSUME GraphInv, NextNode \/ NextScc PROVE GraphInv'
  <1>1. UNCHANGED <<sccVars, graphStep, methodImpl, func_call_graph>>  BY DEF NextNode, NextScc
  <1>2. ConnectInv' /\ SortInv' /\ edges' = edges /\ Nodes' = Nodes  BY <1>1, SccFrozen
  <1>3. NoneLeadsBack => NoneLeadsBack'  BY <1>1, <1>2 DEF NoneLeadsBack
  <1>. QED  BY <1>1, <1>2, <1>3 DEF GraphInv

LEMMA FinalKeeps == ASSUME GraphInv, Final PROVE GraphInv'
  <1>1. /\ graphStep' = "final" /\ Fresh(func_call_graph) /\ func_call_graph' = func_call_graph
        /\ func_call_graph \in Seq(Seq(DOMAIN func_call_graph))
    BY DEF Final, GraphInv
  <1>2. ConnectInv' /\ SortInv'  BY <1>1, FreshInv
  <1>. QED  BY <1>1, <1>2 DEF GraphInv

LEMMA GraphFrozen == ASSUME GraphInv, UNCHANGED graphVars PROVE GraphInv'
  <1>1. UNCHANGED <<sccVars, graphStep, methodImpl, func_call_graph>>  BY DEF graphVars, callVars
  <1>2. ConnectInv' /\ SortInv' /\ edges' = edges /\ Nodes' = Nodes  BY <1>1, SccFrozen
  <1>3. NoneLeadsBack => NoneLeadsBack'  BY <1>1, <1>2 DEF NoneLeadsBack
  <1>. QED  BY <1>1, <1>2, <1>3 DEF GraphInv

(* Every step of the pipeline is a step of the prunings or leaves what     *)
(* they have done alone.                                                   *)
LEMMA CrateSteps ==
    ASSUME [Next]_crateVars
    PROVE  PruneNext \/ UNCHANGED pruneVars
  BY DEF Next, PruneStep, CallGraphStep, Bucket, Verified, BuildCallGraph, PruneNext, crateVars

LEMMA PresentKept ==
    ASSUME WellFormedKrate(krate), present \subseteq Items, PruneNext \/ UNCHANGED pruneVars
    PROVE  WellFormedKrate(krate)' /\ present' \subseteq Items
  <1>1. CASE Convert
    <2>1. present' = present \cup Made \cup Introduced  BY <1>1 DEF Convert
    <2>2. Made \subseteq Items  BY DEF Made, Items
    <2>3. Introduced \subseteq krate.fresh  BY DEF Introduced
    <2>4. krate.fresh \subseteq Items  BY DEF WellFormedKrate, KrateRecords, Items
    <2>5. WellFormedKrate(krate)'  BY <1>1, ConvertedKrate
    <2>. QED  BY <2>1, <2>2, <2>3, <2>4, <2>5
  <1>2. CASE Traverse \/ Finish \/ PruneForBucket \/ UNCHANGED pruneVars
    BY <1>2, TraverseKeepsKrate DEF Finish, PruneForBucket, pruneVars
  <1>. QED  BY <1>1, <1>2 DEF PruneNext

-----------------------------------------------------------------------------
(* The pipeline.                                                           *)

(* CrateInv holds from the merged crates to the bucket: every call graph   *)
(* that GlobalCtx::new builds is well formed, and while compute_sccs and   *)
(* sort_sccs run on it their invariants hold, for every crate.             *)
THEOREM CrateInvariant == Spec => []CrateInv
  <1>1. ASSUME Init PROVE CrateInv
    <2>1. WellFormedKrate(krate) /\ present = krate.items  BY <1>1, KrateAssumption DEF Init, PruneInit
    <2>2. krate.items \subseteq Items  BY <2>1 DEF WellFormedKrate, KrateRecords
    <2>. QED  BY <1>1, <2>1, <2>2, GraphInitInv DEF Init, CrateInv
  <1>2. ASSUME CrateInv, [Next]_crateVars PROVE CrateInv'
    <2>1. WellFormedKrate(krate)' /\ present' \subseteq Items
      BY <1>2, CrateSteps, PresentKept DEF CrateInv
    <2>2. GraphInv  BY <1>2 DEF CrateInv
    <2>3. CASE UNCHANGED graphVars  BY <2>1, <2>2, <2>3, GraphFrozen DEF CrateInv
    <2>4. CASE BuildCallGraph  BY <1>2, <2>1, <2>4, BuildKeeps DEF CrateInv
    <2>5. CASE GraphStep
      BY <2>1, <2>2, <2>5, SortKeeps, AddEdgeKeeps, NextKeeps, FinalKeeps DEF GraphStep, CrateInv
    <2>6. UNCHANGED graphVars \/ BuildCallGraph \/ GraphStep
      BY <1>2 DEF Next, PruneStep, CallGraphStep, Bucket, Verified, crateVars
    <2>. QED  BY <2>3, <2>4, <2>5, <2>6
  <1>. QED  BY <1>1, <1>2, PTL DEF Spec

(* Graph::compute_sccs: when it has run, on the preliminary graph and on   *)
(* the final one, two functions are in one component exactly when each     *)
(* depends on the other.                                                   *)
THEOREM SccsExact == Spec => []ComponentsExact
  <1>1. CrateInv => ComponentsExact  BY ComponentsAreExact DEF CrateInv, GraphInv
  <1>. QED  BY <1>1, CrateInvariant, PTL

(* Graph::sort_sccs: each component once, and no definition before one it  *)
(* uses.                                                                   *)
THEOREM SortedCalleesFirst == Spec => []CalleesFirst
  <1>1. CrateInv => CalleesFirst  BY CalleesComeFirst DEF CrateInv, GraphInv
  <1>. QED  BY <1>1, CrateInvariant, PTL

(* can_reach, node_is_in_cycle and shortest_cycle_back_to_self answer as   *)
(* the paths of the graph do.                                              *)
THEOREM QuestionsAnswered == Spec => []AnswersExact
  <1>1. CrateInv => AnswersExact  BY AnswersAreExact DEF CrateInv, GraphInv
  <1>. QED  BY <1>1, CrateInvariant, PTL

(* An edge that GlobalCtx::new adds from a function to a trait             *)
(* implementation leads to nothing that leads back in the preliminary      *)
(* graph.                                                                  *)
THEOREM AddedEdgesSound == Spec => []AddedEdgesLeadNotBack
  <1>1. CrateInv => AddedEdgesLeadNotBack
    <2>1. SUFFICES ASSUME GraphInv, graphStep = "preliminary", NEW v \in Nodes,
                          NEW i \in ToSet(func_call_graph[v]) \ ToSet(edges[v])
                   PROVE  v # i /\ v \notin ReachedFrom(edges, i)
      BY DEF CrateInv, AddedEdgesLeadNotBack
    <2>2. ~Leads(edges, i, v)  BY <2>1 DEF GraphInv, NoneLeadsBack
    <2>3. IsGraph(edges) /\ Nodes = DOMAIN edges  BY <2>1, SccGraph DEF GraphInv
    <2>4. i \in Nodes
      <3>1. func_call_graph \in Seq(Seq(Nodes)) /\ DOMAIN func_call_graph = Nodes
        BY <2>1 DEF GraphInv
      <3>2. func_call_graph[v] \in Seq(Nodes)  BY <3>1
      <3>. QED  BY <3>2 DEF ToSet
    <2>. QED  BY <2>2, <2>3, <2>4, LeadsFirst
  <1>. QED  BY <1>1, CrateInvariant, PTL

(* The pipeline implements the two prunings: what PruneSpec promises holds *)
(* of it too.                                                              *)
THEOREM PipelinePrunes == Spec => PruneSpec
  <1>1. Init => PruneInit  BY DEF Init
  <1>2. [Next]_crateVars => [PruneNext]_pruneVars  BY CrateSteps
  <1>. QED  BY <1>1, <1>2, PTL DEF Spec, PruneSpec
=============================================================================
