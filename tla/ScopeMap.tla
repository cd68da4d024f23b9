------------------------------ MODULE ScopeMap ------------------------------
(***************************************************************************)
(* air/src/scope_map.rs: one flat map and, per scope, an undo_map with     *)
(* what each key inserted in the scope hid, plus the set of keys that may  *)
(* not be shadowed.                                                        *)
(*                                                                         *)
(* An undo_map entry is split in two functions: prev (Absent for a key     *)
(* that is not in the undo_map, None for one that hid nothing) and index,  *)
(* its position in the scope.  A second insert of a key in a scope that    *)
(* allows shadowing answers Err with the map already changed and the undo  *)
(* entry overwritten.  Many callers discard that Err (let _ = ... in       *)
(* vir/src/sst_util.rs, ast_visitor.rs, sst_visitor.rs, poly.rs) and use   *)
(* the map on, so the model does too: the pop that follows then brings     *)
(* back the first inner value and not the outer one.                       *)
(***************************************************************************)
EXTENDS Integers, Sequences

CONSTANTS
    Key, Val,
    None,       \* no value
    Absent,     \* no entry in the undo_map
    MaxDepth,   \* bound: scopes pushed at a time
    MaxBinds    \* bound: inserts in one scope

ASSUME ScopeMapAssumption ==
    /\ None \notin Val /\ Absent \notin Val /\ None # Absent
    /\ MaxDepth \in Nat /\ MaxBinds \in Nat

VARIABLES
    map,            \* map, with None for a key it does not contain
    cannotShadow,   \* cannot_shadow
    scopes,         \* scopes, innermost last
    result,         \* "ok" or "err": what the last insert or replace returned
    twice           \* history: the keys that were inserted twice in one scope

vars == <<map, cannotShadow, scopes, result, twice>>

Kind == {"shadowing", "unique"}    \* allow_shadowing or not
Top == Len(scopes)
Binds(i, k) == scopes[i].prev[k] # Absent

-----------------------------------------------------------------------------
Init ==
    /\ map = [k \in Key |-> None]
    /\ cannotShadow = {}
    /\ scopes = <<>>
    /\ result = "ok"
    /\ twice = {}

NewScope(kind) ==
    [prev |-> [k \in Key |-> Absent], index |-> [k \in Key |-> 0], kind |-> kind, count |-> 0]

PushScope(kind) ==
    /\ Top < MaxDepth
    /\ scopes' = Append(scopes, NewScope(kind))
    /\ UNCHANGED <<map, cannotShadow, result, twice>>

\* Mutant: new keys leave the map, a key that hid a value keeps the inner one.
RestoredForgets ==
    [k \in Key |-> IF scopes[Top].prev[k] = None THEN None ELSE map[k]]

\* Each key of the undo_map gets back the value it hid, or leaves the map.
Restored == [k \in Key |-> IF Binds(Top, k) THEN scopes[Top].prev[k] ELSE map[k]]

PopScope ==
    /\ Top > 0
    /\ map' = Restored
    /\ cannotShadow' = IF scopes[Top].kind = "unique"
                       THEN {k \in cannotShadow : ~Binds(Top, k)} ELSE cannotShadow
    /\ scopes' = SubSeq(scopes, 1, Top - 1)
    /\ UNCHANGED <<result, twice>>

\* scope.undo_map.insert(key, (prev, scope.count)); scope.count += 1
WithEntry(s, k) ==
    [prev |-> [s.prev EXCEPT ![k] = map[k]],
     index |-> [s.index EXCEPT ![k] = s.count],
     kind |-> s.kind,
     count |-> s.count + 1]

\* insert_at, past its check of cannot_shadow.  The answer tells whether the
\* undo_map had an entry for the key; the map has changed in both cases.
Enter(i, k, v) ==
    /\ k \notin cannotShadow
    /\ scopes[i].count < MaxBinds
    /\ map' = [map EXCEPT ![k] = v]
    /\ cannotShadow' = IF scopes[i].kind = "unique" THEN cannotShadow \cup {k} ELSE cannotShadow
    /\ scopes' = [scopes EXCEPT ![i] = WithEntry(scopes[i], k)]
    /\ \/ ~Binds(i, k) /\ result' = "ok" /\ twice' = twice
       \/ Binds(i, k) /\ result' = "err" /\ twice' = twice \cup {k}

\* insert_at returns at once when the key may not be shadowed.
Refused(k) ==
    /\ k \in cannotShadow
    /\ result' = "err"
    /\ UNCHANGED <<map, cannotShadow, scopes, twice>>

Insert(k, v) ==
    /\ Top > 0
    /\ Enter(Top, k, v) \/ Refused(k)

\* insert_fun_typing declares a function under a name made from a counter in
\* the scope that encloses the expression being simplified.
InsertAt(i, k, v) ==
    /\ i \in 1..Top
    /\ \A j \in 1..Top : ~Binds(j, k)
    /\ Enter(i, k, v)

Replace(k, v) ==
    /\ \/ map[k] # None /\ map' = [map EXCEPT ![k] = v] /\ result' = "ok"
       \/ map[k] = None /\ result' = "err" /\ UNCHANGED map
    /\ UNCHANGED <<cannotShadow, scopes, twice>>

Next ==
    \/ \E kind \in Kind : PushScope(kind)
    \/ PopScope
    \/ \E k \in Key, v \in Val : Insert(k, v)
    \/ \E k \in Key, v \in Val, i \in 1..Top : InsertAt(i, k, v)
    \/ \E k \in Key, v \in Val : Replace(k, v)

Spec == Init /\ [][Next]_vars

-----------------------------------------------------------------------------
(* What a scope sees is spread over the undo_maps: the value of a key in   *)
(* scope i is the one hidden by the first scope above i that binds it.     *)

Hides(sc, i, j, k) ==
    /\ j \in (i + 1)..Len(sc)
    /\ sc[j].prev[k] # Absent
    /\ \A n \in (i + 1)..(j - 1) : sc[n].prev[k] = Absent

ViewOf(sc, m, i) ==
    [k \in Key |-> IF \E j \in (i + 1)..Len(sc) : sc[j].prev[k] # Absent
                   THEN sc[CHOOSE j \in (i + 1)..Len(sc) : Hides(sc, i, j, k)].prev[k]
                   ELSE m[k]]

PosOf(s) == [k \in Key |-> IF s.prev[k] # Absent THEN s.index[k] ELSE -1]

FrameOf(i) ==
    [view |-> ViewOf(scopes, map, i), pos |-> PosOf(scopes[i]),
     kind |-> scopes[i].kind, count |-> scopes[i].count]

Frames == [i \in 1..Top |-> FrameOf(i)]

\* What is left in the map when every scope is popped.
Below == ViewOf(scopes, map, 0)

Reference == INSTANCE ScopeStack WITH base <- Below, frames <- Frames, answer <- result

(* The map, its undo_maps and cannot_shadow implement the stack of scopes: *)
(* every insert, replace, push and pop answers and leaves the views that    *)
(* the reference stack says, a scope popped leaves no trace but that of a   *)
(* key inserted twice in it, a key that may not be shadowed is refused      *)
(* wherever the reference refuses it, and the position closure.rs compares  *)
(* variables by is that of the reference.                                   *)
ImplementsScopeStack == Reference!ScopeSpec

-----------------------------------------------------------------------------
(* The inductive invariant behind the theorems of ScopeMapProofs.          *)

Scope == [prev : [Key -> Val \cup {None, Absent}], index : [Key -> Nat], kind : Kind, count : Nat]

TypeOK ==
    /\ map \in [Key -> Val \cup {None}]
    /\ scopes \in Seq(Scope)

(* cannot_shadow holds the keys of the scopes that forbid shadowing, and    *)
(* above such a scope nothing binds its keys: that is why popping a scope   *)
(* may lift the protection of all its keys.                                 *)
ProtectedOnce ==
    /\ cannotShadow = {k \in Key : \E i \in 1..Top : scopes[i].kind = "unique" /\ Binds(i, k)}
    /\ \A i, j \in 1..Top, k \in Key :
          i < j /\ scopes[i].kind = "unique" /\ Binds(i, k) => ~Binds(j, k)

(* The positions of the keys of a scope differ, though a second insert      *)
(* gives a key a new position: the counter is past all of them.             *)
PositionsDistinct ==
    \A i \in 1..Top, k \in Key : Binds(i, k) =>
        /\ scopes[i].index[k] < scopes[i].count
        /\ \A l \in Key : Binds(i, l) /\ scopes[i].index[l] = scopes[i].index[k] => l = k

(* A key that was never inserted twice in one scope leaves the map with the *)
(* last scope.                                                              *)
EmptyBelow == \A k \in Key : k \in twice \/ Below[k] = None

MapInv == TypeOK /\ ProtectedOnce /\ PositionsDistinct /\ EmptyBelow
=============================================================================
