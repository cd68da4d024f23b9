---------------------------- MODULE MCResolution ----------------------------
(***************************************************************************)
(* Function bodies for Resolution: the local x has two fields, f a mutable *)
(* reference and g.  A body is a shape with holes, at most MaxInstrs of    *)
(* which hold an instruction.                                              *)
(***************************************************************************)
EXTENDS Resolution

CONSTANT MaxInstrs

B == INSTANCE ResolutionCfg

MCProjections == {"f", "g", Deref}
MCTracked == {<<"f">>, <<"f", Deref>>}

(* What a body may do with x: no move out of a reference, no drop (that is *)
(* Decl).                                                                  *)
Uses == {B!Instr("MoveFrom", <<"f">>), B!Instr("Overwrite", <<>>),
         B!Instr("Overwrite", <<"f", Deref>>),
         B!Instr("Mutate", <<"f", Deref>>), B!Instr("Mutate", <<"g">>)}

Holes == {h \in [1..4 -> {B!Nothing} \cup {B!Leaf(u) : u \in Uses}] :
             Cardinality({i \in 1..4 : h[i] # B!Nothing}) <= MaxInstrs}

Shapes(h) ==
    {B!Block(<<h[1], B!If(h[2], h[3], B!Nothing), h[4]>>),
     B!Block(<<B!If(B!Nothing, B!Block(<<h[1], B!Return>>), h[2]), h[3], h[4]>>),
     B!Block(<<B!While("a", h[1], B!Block(<<h[2], h[3]>>)), h[4]>>),
     B!Block(<<h[1], B!While("a", B!Nothing, B!Block(<<B!Decl, h[2], B!If(B!Nothing,
                        B!Continue("a"), h[3])>>)), h[4]>>),
     B!Block(<<h[1], B!Loop("a", B!Block(<<h[2], B!If(B!Nothing, B!Block(<<h[3], B!Break("a")>>),
                        B!Nothing)>>)), h[4]>>),
     B!Block(<<h[1], B!Loop("a", B!Block(<<h[2], h[3]>>)), h[4]>>),
     B!Block(<<B!Loop("a", B!Block(<<h[1], B!Loop("b", B!If(h[2], B!Continue("a"),
                        B!Block(<<h[3], B!Break("a")>>)))>>)), h[4]>>),
     B!Block(<<h[1], B!CallUnwind, h[2], B!CallUnwind, h[3]>>),
     B!Block(<<B!Match(<<B!Arm(h[1], h[2]), B!Arm(B!NoGuard, h[3]), B!Arm(B!NoGuard, B!Nothing)>>), h[4]>>),
     B!Block(<<B!Match(<<B!Arm(h[1], B!Nothing), B!Arm(h[2], h[3]), B!Arm(B!NoGuard, h[4])>>)>>)}

MCCfgs == {B!new_cfg(p, e) : p \in BOOLEAN, e \in UNION {Shapes(h) : h \in Holes}}
=============================================================================
