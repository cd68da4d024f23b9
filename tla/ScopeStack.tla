----------------------------- MODULE ScopeStack -----------------------------
(***************************************************************************)
(* What a ScopeMap promises: a stack of scopes, each with the keys bound   *)
(* in it, numbered in the order in which they were bound, and the view of  *)
(* the whole map that is current when it is the top scope, with one more   *)
(* view below all scopes.  Popping a scope uncovers the view below, a      *)
(* second binding is refused where a scope forbids shadowing, and replace  *)
(* updates the innermost binding wherever it is seen.                      *)
(*                                                                         *)
(* Binding a key a second time in the top scope answers "err", and the     *)
(* views below pay for it: the scopes that saw what the first binding hid  *)
(* will see the first binding itself when the scope is popped.             *)
(***************************************************************************)
EXTENDS Integers, Sequences

CONSTANTS Key, Val, None

VARIABLES
    base,       \* the view below all scopes
    frames,     \* the scopes, innermost last
    answer      \* "ok" or "err": the result of the last insert or replace

Depth == Len(frames)
TopView == IF Depth = 0 THEN base ELSE frames[Depth].view

\* The keys that scope i binds: those that have a position in it.
Bound(i) == {k \in Key : frames[i].pos[k] >= 0}

\* Some scope above i, up to scope j, binds the key.
BoundAbove(i, j, k) == \E n \in (i + 1)..j : k \in Bound(n)

\* A key of a scope that forbids shadowing cannot be bound a second time.
Protected(k) == \E i \in 1..Depth : frames[i].kind = "unique" /\ k \in Bound(i)

ScopeInit == base = [k \in Key |-> None] /\ frames = <<>> /\ answer = "ok"

PushFrame(kind) ==
    /\ frames' = Append(frames, [view |-> TopView, pos |-> [k \in Key |-> -1],
                                 kind |-> kind, count |-> 0])
    /\ UNCHANGED <<base, answer>>

PopFrame ==
    /\ frames # <<>>
    /\ frames' = SubSeq(frames, 1, Depth - 1)
    /\ UNCHANGED <<base, answer>>

\* Scope j with another view, and with the key numbered last if j = i.
Numbered(j, i, k, view) ==
    [view |-> view,
     pos |-> IF j = i THEN [frames[j].pos EXCEPT ![k] = frames[j].count] ELSE frames[j].pos,
     kind |-> frames[j].kind,
     count |-> IF j = i THEN frames[j].count + 1 ELSE frames[j].count]

\* Scope i binds the key, and every scope from it up sees the value.
Bind(i, k, v) ==
    /\ frames' = [j \in 1..Depth |->
          Numbered(j, i, k, IF j >= i THEN [frames[j].view EXCEPT ![k] = v] ELSE frames[j].view)]
    /\ answer' = "ok"
    /\ UNCHANGED base

Refuse == answer' = "err" /\ UNCHANGED <<base, frames>>

\* A view from which the first binding in the top scope was the next one
\* above takes that binding's value.
Leak(view, j, k) ==
    IF BoundAbove(j, Depth - 1, k) THEN view ELSE [view EXCEPT ![k] = TopView[k]]

\* The top scope binds a key it already binds.
BindAgain(k, v) ==
    /\ frames' = [j \in 1..Depth |->
          Numbered(j, Depth, k, IF j = Depth THEN [frames[j].view EXCEPT ![k] = v]
                                ELSE Leak(frames[j].view, j, k))]
    /\ base' = Leak(base, 0, k)
    /\ answer' = "err"

\* The innermost binding changes for every scope that sees that binding.
Rebound(view, j, k, v) ==
    IF BoundAbove(j, Depth, k) THEN view ELSE [view EXCEPT ![k] = v]

Rebind(k, v) ==
    /\ frames' = [j \in 1..Depth |-> [frames[j] EXCEPT !.view = Rebound(@, j, k, v)]]
    /\ base' = Rebound(base, 0, k, v)
    /\ answer' = "ok"

InsertFrame(k, v) ==
    /\ frames # <<>>
    /\ \/ Protected(k) /\ Refuse
       \/ ~Protected(k) /\ k \notin Bound(Depth) /\ Bind(Depth, k, v)
       \/ ~Protected(k) /\ k \in Bound(Depth) /\ BindAgain(k, v)

\* A key that is bound nowhere may be bound further out.
InsertFrameAt(i, k, v) ==
    /\ \A j \in 1..Depth : k \notin Bound(j)
    /\ Bind(i, k, v)

ReplaceFrame(k, v) ==
    \/ TopView[k] # None /\ Rebind(k, v)
    \/ TopView[k] = None /\ Refuse

ScopeNext ==
    \/ \E kind \in {"shadowing", "unique"} : PushFrame(kind)
    \/ PopFrame
    \/ \E k \in Key, v \in Val :
          \/ InsertFrame(k, v)
          \/ \E i \in 1..Depth : InsertFrameAt(i, k, v)
          \/ ReplaceFrame(k, v)

ScopeSpec == ScopeInit /\ [][ScopeNext]_<<base, frames, answer>>
=============================================================================
