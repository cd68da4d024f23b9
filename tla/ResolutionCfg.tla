---------------------------- MODULE ResolutionCfg ----------------------------
(***************************************************************************)
(* The control flow graph that resolution_inference.rs builds from a       *)
(* function body (Builder::build), for the expressions that shape it.  An  *)
(* expression that only touches a place is a leaf carrying the instruction *)
(* it pushes.                                                              *)
(***************************************************************************)
EXTENDS Naturals, Sequences, SequencesExt

Instr(kind, place) == [kind |-> kind, place |-> place]

(* Bodies *)
Leaf(instr) == [op |-> "leaf", instr |-> instr]
Block(es) == [op |-> "block", es |-> es]
If(cond, thn, els) == [op |-> "if", cond |-> cond, thn |-> thn, els |-> els]
While(label, cond, body) == [op |-> "while", label |-> label, cond |-> cond, body |-> body]
Loop(label, body) == [op |-> "loop", label |-> label, body |-> body]
Break(label) == [op |-> "break", label |-> label]
Continue(label) == [op |-> "continue", label |-> label]
Return == [op |-> "return"]
Nothing == Block(<<>>)
Decl == [op |-> "decl"]           \* let x;
CallUnwind == [op |-> "call"]     \* a call that may unwind
Arm(guard, body) == [guard |-> guard, body |-> body]
NoGuard == [op |-> "none"]
Match(arms) == [op |-> "match", arms |-> arms]

-----------------------------------------------------------------------------
(* The builder: its blocks and its stack of loops.  A step of it returns   *)
(* the block the expression ends in, Never when its end is not reached.    *)

Never == 0

NewBlock(position, always) ==
    [instructions |-> <<>>, predecessors |-> <<>>, successors |-> <<>>,
     is_entry |-> FALSE, is_exit |-> FALSE,
     always_add_resolution_at_start |-> always, position_of_start |-> position]

new_bb(st, position, always) ==
    [st EXCEPT !.blocks = Append(@, NewBlock(position, always))]

(* The block a call of new_bb on st returns. *)
Fresh(st) == Len(st.blocks) + 1

push_successor(st, bb, successor) ==
    IF bb = Never THEN st
    ELSE [st EXCEPT !.blocks[bb].successors = Append(@, successor)]

push_instruction(st, bb, instr) ==
    [st EXCEPT !.blocks[bb].instructions = Append(@, instr)]

set_exit(st, bb) ==
    IF bb = Never THEN st ELSE [st EXCEPT !.blocks[bb].is_exit = TRUE]

(* The innermost loop of this label. *)
get_loop(loops, label) == loops[SelectLastInSeq(loops, LAMBDA l : l.label = label)]

RECURSIVE build(_, _, _), build_seq(_, _, _), build_match(_, _, _, _)

build_seq(es, st, bb) ==
    IF es = <<>> \/ bb = Never THEN [st |-> st, bb |-> bb]
    ELSE LET r == build(Head(es), st, bb) IN build_seq(Tail(es), r.st, r.bb)

build_call(st, bb) ==
    LET unwind_bb == Fresh(st)
        main_bb == unwind_bb + 1
        st1 == new_bb(new_bb(st, "OnUnwind", FALSE), "Ast", FALSE)
        st2 == push_successor(push_successor(st1, bb, unwind_bb), bb, main_bb)
    IN [st |-> set_exit(st2, unwind_bb), bb |-> main_bb]

build_if(e, st, bb) ==
    LET c == build(e.cond, st, bb)
        thn_block == Fresh(c.st)
        els_block == thn_block + 1
        st1 == new_bb(new_bb(c.st, "Ast", FALSE), "Ast", FALSE)
        st2 == push_successor(push_successor(st1, c.bb, thn_block), c.bb, els_block)
        t == build(e.thn, st2, thn_block)
        f == build(e.els, t.st, els_block)
        join == new_bb(f.st, "Ast", FALSE)
        join_block == Fresh(f.st)
    IN CASE c.bb = Never -> c
         [] c.bb # Never /\ t.bb = Never /\ f.bb = Never -> [st |-> f.st, bb |-> Never]
         [] OTHER -> [st |-> push_successor(push_successor(join, t.bb, join_block),
                                            f.bb, join_block),
                      bb |-> join_block]

build_loop(e, st, bb) ==
    LET outer_body_bb == Fresh(st)
        post_bb == outer_body_bb + 1
        st1 == push_successor(new_bb(new_bb(st, "Ast", TRUE), "Ast", TRUE), bb, outer_body_bb)
        st2 == [st1 EXCEPT !.loops = Append(@, [label |-> e.label, break_bb |-> post_bb,
                                                 continue_bb |-> outer_body_bb])]
        c == build(e.cond, st2, outer_body_bb)
        pre_break_bb == Fresh(c.st)
        inner_body_bb == pre_break_bb + 1
        st3 == new_bb(new_bb(c.st, "Ast", FALSE), "Ast", FALSE)
        st4 == push_successor(push_successor(st3, c.bb, pre_break_bb), c.bb, inner_body_bb)
        b == IF e.op = "loop" THEN build(e.body, st2, outer_body_bb)
             ELSE build(e.body, push_successor(st4, pre_break_bb, post_bb), inner_body_bb)
        Popped(s) == [s EXCEPT !.loops = Front(@)]
    IN IF e.op = "while" /\ c.bb = Never THEN [st |-> Popped(c.st), bb |-> post_bb]
       ELSE [st |-> Popped(push_successor(b.st, b.bb, outer_body_bb)), bb |-> post_bb]

(* The arms one after the other: a guarded arm falls through to a block of *)
(* its own when the pattern or the guard fails, the last arm always fits.  *)
build_match(arms, st, cur_bb, ends) ==
    LET arm == Head(arms)
        next == Fresh(st)
        st1 == push_successor(new_bb(st, "Ast", FALSE), cur_bb, next)
        plain == build(arm.body, st1, next)
        g == build(arm.guard, st1, next)
        guard_fail_bb == Fresh(g.st)
        guard_success_bb == guard_fail_bb + 1
        st2 == new_bb(new_bb(g.st, "Ast", FALSE), "Ast", FALSE)
        st3 == push_successor(push_successor(st2, g.bb, guard_fail_bb), g.bb, guard_success_bb)
        guarded == build(arm.body, st3, guard_success_bb)
        next_bb == Fresh(guarded.st)
        st4 == push_successor(new_bb(guarded.st, "MatchIntermediate", FALSE),
                              guard_fail_bb, next_bb)
        join_block == Fresh(plain.st)
    IN CASE Len(arms) = 1 ->
              IF Append(ends, plain.bb) \in Seq({Never}) THEN [st |-> plain.st, bb |-> Never]
              ELSE [st |-> FoldLeft(LAMBDA s, b : push_successor(s, b, join_block),
                                    new_bb(plain.st, "Ast", FALSE), Append(ends, plain.bb)),
                    bb |-> join_block]
         [] Len(arms) > 1 /\ arm.guard = NoGuard ->
              build_match(Tail(arms), plain.st, cur_bb, Append(ends, plain.bb))
         [] Len(arms) > 1 /\ arm.guard # NoGuard /\ g.bb = Never ->
              build_match(Tail(arms), g.st, cur_bb, ends)
         [] OTHER ->
              build_match(Tail(arms), push_successor(st4, cur_bb, next_bb), next_bb,
                          Append(ends, guarded.bb))

build(e, st, bb) ==
    CASE e.op = "leaf" -> [st |-> push_instruction(st, bb, e.instr), bb |-> bb]
      [] e.op = "decl" -> [st |-> IF st.loops = <<>> THEN st
                                  ELSE push_instruction(st, bb, Instr("DropFrom", <<>>)),
                           bb |-> bb]
      [] e.op = "block" -> build_seq(e.es, st, bb)
      [] e.op = "call" -> build_call(st, bb)
      [] e.op = "if" -> build_if(e, st, bb)
      [] e.op \in {"while", "loop"} -> build_loop(e, st, bb)
      [] e.op = "match" -> build_match(e.arms, st, bb, <<>>)
      [] e.op = "break" -> [st |-> push_successor(st, bb, get_loop(st.loops, e.label).break_bb),
                            bb |-> Never]
      [] e.op = "continue" -> [st |-> push_successor(st, bb, get_loop(st.loops, e.label).continue_bb),
                               bb |-> Never]
      [] e.op = "return" -> [st |-> set_exit(st, bb), bb |-> Never]

(* One entry for every edge, so that a block may be listed twice. *)
compute_predecessors(blocks) ==
    LET Entries(p, b) == [j \in DOMAIN SelectSeq(blocks[p].successors, LAMBDA s : s = b) |-> p]
    IN [b \in DOMAIN blocks |->
           [blocks[b] EXCEPT !.predecessors =
               FlattenSeq([p \in DOMAIN blocks |-> Entries(p, b)])]]

(* The graph of a function whose parameter is the local of the tracked     *)
(* place (is_param), or that declares this local in its body.              *)
new_cfg(is_param, body) ==
    LET start == [NewBlock("Ast", TRUE) EXCEPT
                    !.is_entry = TRUE,
                    !.instructions = IF is_param THEN <<Instr("Overwrite", <<>>)>> ELSE <<>>]
        r == build(body, [blocks |-> <<start>>, loops |-> <<>>], 1)
    IN compute_predecessors(set_exit(r.st, r.bb).blocks)
=============================================================================
