------------------------------ MODULE MCCrate -------------------------------
(***************************************************************************)
(* Crate for TLC: four families of crates over one set of items, each a    *)
(* base and up to a number of facts.                                       *)
(*   - MentionKrates: a bucket main, a sibling other, an imported function *)
(*     lib, a broadcast lemma bc in the group g, a trait Tr with method m  *)
(*     and associated type A, implemented for the type T;                  *)
(*   - ImplKrates: two implementations of Tr, I1 for T with methods a1 and *)
(*     a2, I2 for U with b1 and b2, that call each other's methods;        *)
(*   - CallKrates: four functions that call each other;                    *)
(*   - ConvertedKrates: an imported implementation I1 of Tr for T, which   *)
(*     may inherit the default method n that main or other calls, as c1;   *)
(*     simplification has a type K for a closure of main, with an          *)
(*     implementation IK of Fn, and an integer type Z, for which Tr is     *)
(*     implemented by IZ.                                                  *)
(***************************************************************************)
EXTENDS Crate

CONSTANTS MaxMentions, MaxImplFacts, MaxCalls, MaxConverted

MCFuns == {"main", "other", "lib", "bc", "m", "n", "a1", "a2", "b1", "b2", "c1"}
MCGroups == {"g"}
MCTypes == {"T", "U", "Z", "K"}
MCTraits == {"Tr", "Fn"}
MCImpls == {"I1", "I2", "IZ", "IK"}
MCDecls == {"A"}
MCAssocImpls == {"TA"}
MCOpaques == {"O"}

(* The subsets of S with at most n members. *)
UpTo(n, S) ==
    LET R[i \in 0..n] == IF i = 0 THEN {{}}
                         ELSE R[i - 1] \cup {r \cup {x} : r \in R[i - 1], x \in S}
    IN R[n]

(* A fact <<what, x, y>> adds y to what of x. *)
Of(facts, what, x) == {fact[3] : fact \in {fact \in facts : fact[1] = what /\ fact[2] = x}}

Args(i) == CASE i = "I1" -> {"T"} [] i = "I2" -> {"U", None} [] i = "IZ" -> {"Z"} [] i = "IK" -> {"K"}

(* An implementation mentions its types, a method is bound by its trait. *)
DeclOf(facts, x) ==
    Of(facts, "decl", x) \cup (CASE x \in {"m", "n"} -> {"Tr"} [] x \in Impls -> Args(x) \ {None}
                                 [] OTHER -> {})

KrateOf(own, bucket, methods, copies, facts) ==
    [items |-> Items \ {"c1", "K", "IK"},
     own |-> own,
     decl |-> [x \in Items \ (Groups \cup Decls) |-> DeclOf(facts, x)],
     body |-> [x \in Funs \cup Types |-> Of(facts, "body", x)],
     crate_only |-> [x \in Funs \cup Types |-> Of(facts, "autospec", x)],
     copies |-> copies,
     made_for |-> [x \in Funs \cup Impls \cup AssocImpls |->
                     CASE x = "c1" /\ copies # {} -> {{"I1", "Tr", "n"}}
                       [] x = "IK" /\ copies # {} -> {{"main"}}
                       [] OTHER -> {}],
     fresh |-> {"Z", "K"},
     simple_decl |-> [x \in Items \ (Groups \cup Decls) |->
                        CASE x = "c1" -> DeclOf(facts, "n") \cup DeclOf(facts, "I1")
                          [] OTHER -> DeclOf(facts, x) \cup Of(facts, "simple", x)],
     simple_body |-> [x \in Funs \cup Types |-> Of(facts, "body", x)],
     shown |-> [x \in Funs \cup Types |->
                  CASE Of(facts, "shown", x) # {} -> CHOOSE s \in Of(facts, "shown", x) : TRUE
                    [] OTHER -> "open"],
     visible |-> (Groups \cup Types) \ Of(facts, "hidden", "main"),
     broadcast_use |-> [x \in Funs |-> Of(facts, "use", x)],
     reveal |-> [x \in Funs |-> Of(facts, "reveal", x)],
     members |-> [x \in Groups |-> {"bc"}],
     default_groups |-> Of(facts, "default", "g"),
     triggers |-> [x \in Funs |-> IF x # "bc" THEN {}
                                  ELSE CASE Of(facts, "trig", x) = {} -> {{"lib"}}
                                         [] OTHER -> CHOOSE t \in Of(facts, "trig", x) : TRUE],
     broadcast_forall |-> {"bc"},
     methods |-> methods,
     trait |-> [i \in Impls |-> IF i = "IK" THEN "Fn" ELSE "Tr"],
     trait_typ_args |-> [i \in Impls |-> Args(i)],
     assoc_decl |-> [a \in AssocImpls |-> "A"],
     assoc_self |-> [a \in AssocImpls |-> "T"],
     decl_trait |-> [d \in Decls |-> "Tr"],
     bucket_funs |-> bucket,
     bucket_types |-> own \cap Types,
     module_reveals |-> Of(facts, "module", "main"),
     other_reveals |-> Of(facts, "module", "other"),
     spec |-> {"lib", "m", "a1"},
     declares |-> [t \in Traits |-> IF t = "Tr" THEN {"m", "n"} ELSE {}],
     instantiates |-> [x \in Funs \cup Impls |-> Of(facts, "inst", x)]]

Method(f, method, self, i) == [fun |-> f, method |-> method, self |-> self, impl |-> i]

MentionFacts ==
    ({"body"} \X {"main"} \X {"lib", "m", "T", "Tr", "A", "O", "bc"})
      \cup ({"body"} \X {"other"} \X {"lib", "T", "m", "bc"})
      \cup ({"body"} \X {"lib"} \X {"T", "m"})
      \cup {<<"body", "a1", "lib">>, <<"decl", "bc", "m">>, <<"decl", "T", "A">>,
            <<"decl", "T", "U">>, <<"decl", "U", "m">>, <<"decl", "TA", "U">>,
            <<"decl", "O", "Tr">>, <<"decl", "I1", "U">>}
      \cup ({"use"} \X {"main", "other", "lib"} \X {"g"})
      \cup {<<"reveal", "main", "lib">>, <<"hidden", "main", "U">>, <<"default", "g", "g">>,
            <<"module", "main", "g">>, <<"module", "other", "g">>}
      \cup ({"shown"} \X {"lib"} \X {"opaque", "closed"})
      \cup ({"trig"} \X {"bc"} \X {{{"m"}, {"T"}}, {{"lib", "T"}}})

MentionKrates ==
    {KrateOf({"main", "other"}, {"main"}, {Method("a1", "m", "T", "I1")}, {}, facts) :
        facts \in UpTo(MaxMentions, MentionFacts)}

ImplFuns == {"a1", "a2", "b1", "b2"}
OtherCalls == {call \in {"body"} \X ImplFuns \X ImplFuns : call[2] # call[3]}

ImplKrates ==
    {KrateOf(ImplFuns \cup {"I1", "I2", "T", "U"}, {"a1", "b2"},
             {Method("a1", "m", "T", "I1"), Method("a2", "n", "T", "I1"),
              Method("b1", "m", "U", "I2"), Method("b2", "n", "U", "I2")}, {}, facts) :
        facts \in UpTo(MaxImplFacts, OtherCalls \cup ({"inst"} \X {"a1", "I2"} \X {"I1", "I2"}))}

CallKrates ==
    {KrateOf(ImplFuns, {"a1"}, {}, {}, facts) :
        facts \in UpTo(MaxCalls, OtherCalls \cup {<<"body", "a1", "a1">>})}

ConvertedFacts ==
    ({"body"} \X {"main"} \X {"n", "m", "T", "c1", "bc"})
      \cup {<<"body", "other", "T">>, <<"body", "T", "U">>, <<"body", "n", "m">>, <<"decl", "n", "U">>,
            <<"autospec", "other", "lib">>, <<"use", "main", "g">>, <<"trig", "bc", {{"n", "T"}}>>}
      \cup ({"simple"} \X {"main"} \X {"U", "Z", "K"})
      \cup {<<"simple", "IK", "Fn">>, <<"simple", "K", "T">>}

ConvertedKrates ==
    {c \in {KrateOf({"main", "other"}, {"main", "c1"}, methods, {Method("c1", "n", "T", "I1")},
                    facts \cup {<<"decl", "main", "Fn">>, <<"body", caller, "n">>}) :
                facts \in UpTo(MaxConverted, ConvertedFacts), caller \in {"main", "other"},
                methods \in {{Method("a1", "m", "T", "I1")},
                             {Method("a1", "m", "T", "I1"), Method("a2", "n", "T", "I1")}}} :
        Convertible(c)}

MCKrates == MentionKrates \cup ImplKrates \cup CallKrates \cup ConvertedKrates
=============================================================================
