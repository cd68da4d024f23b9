--------------------------- MODULE ScopeMapProofs ---------------------------
(***************************************************************************)
(* The flat map of air/src/scope_map.rs with its undo_maps implements a    *)
(* stack of scopes, for every set of keys and values and every depth.      *)
(***************************************************************************)
EXTENDS ScopeMap, SequenceTheorems, WellFoundedInduction, TLAPS

-----------------------------------------------------------------------------
(* Views: what a scope sees, from the undo_maps above it *)

(* If a key is bound above scope i, one scope is the first to bind it. *)
LEMMA FirstBinder ==
    ASSUME NEW sc \in Seq(Scope), NEW i \in 0..Len(sc), NEW k \in Key,
           \E j \in (i + 1)..Len(sc) : sc[j].prev[k] # Absent
    PROVE  \E j \in (i + 1)..Len(sc) : Hides(sc, i, j, k)
  <1> DEFINE B == {j \in (i + 1)..Len(sc) : sc[j].prev[k] # Absent}
             R == OpToRel(<, Nat)
  <1>1. Len(sc) \in Nat /\ i \in Nat  BY LenProperties
  <1>2. B \subseteq Nat /\ B # {}  BY <1>1
  <1>3. IsWellFoundedOn(R, Nat)  BY NatLessThanWellFounded
  <1>4. \A x, y \in Nat : <<y, x>> \in R <=> y < x  BY DEF OpToRel
  <1>. HIDE DEF R
  <1>5. PICK x \in B : \A y \in B : ~(<<y, x>> \in R)
    <2>. HIDE DEF B
    <2>. QED  BY <1>2, <1>3, WFMin
  <1>6. \A y \in B : ~(y < x)  BY <1>2, <1>4, <1>5
  <1>7. \A n \in (i + 1)..(x - 1) : sc[n].prev[k] = Absent
    <2>. SUFFICES ASSUME NEW n \in (i + 1)..(x - 1), sc[n].prev[k] # Absent PROVE FALSE
      OBVIOUS
    <2>1. n \in B /\ n < x  BY <1>1
    <2>. QED  BY <1>6, <2>1
  <1>. QED  BY <1>7 DEF Hides

(* The value of a key is the one hidden by the first scope above. *)
LEMMA ViewHidden ==
    ASSUME NEW sc \in Seq(Scope), NEW m, NEW i \in 0..Len(sc), NEW k \in Key,
           NEW j, Hides(sc, i, j, k)
    PROVE  ViewOf(sc, m, i)[k] = sc[j].prev[k]
  <1> DEFINE c == CHOOSE n \in (i + 1)..Len(sc) : Hides(sc, i, n, k)
  <1>1. Len(sc) \in Nat /\ i \in Nat  BY LenProperties
  <1>2. j \in (i + 1)..Len(sc) /\ sc[j].prev[k] # Absent  BY DEF Hides
  <1>3. c \in (i + 1)..Len(sc) /\ Hides(sc, i, c, k)  BY <1>2
  <1>4. ViewOf(sc, m, i)[k] = sc[c].prev[k]  BY <1>2 DEF ViewOf
  <1>. HIDE DEF c
  <1>5. ~(c < j)
    <2>. SUFFICES ASSUME c < j PROVE FALSE  OBVIOUS
    <2>1. c \in (i + 1)..(j - 1)  BY <1>1, <1>2, <1>3
    <2>. QED  BY <1>3, <2>1 DEF Hides
  <1>6. ~(j < c)
    <2>. SUFFICES ASSUME j < c PROVE FALSE  OBVIOUS
    <2>1. j \in (i + 1)..(c - 1)  BY <1>1, <1>2, <1>3
    <2>. QED  BY <1>2, <1>3, <2>1 DEF Hides
  <1>7. c = j  BY <1>1, <1>2, <1>3, <1>5, <1>6
  <1>. QED  BY <1>4, <1>7

(* A key bound nowhere above is seen as it is in the map. *)
LEMMA ViewSeen ==
    ASSUME NEW sc, NEW m, NEW i, NEW k \in Key,
           \A j \in (i + 1)..Len(sc) : sc[j].prev[k] = Absent
    PROVE  ViewOf(sc, m, i)[k] = m[k]
  BY DEF ViewOf

(* Two views agree if they agree on every key. *)
LEMMA ViewsEqual ==
    ASSUME NEW sc, NEW m, NEW i, NEW sc2, NEW m2, NEW i2,
           \A k \in Key : ViewOf(sc, m, i)[k] = ViewOf(sc2, m2, i2)[k]
    PROVE  ViewOf(sc, m, i) = ViewOf(sc2, m2, i2)
  <1>1. ViewOf(sc, m, i) = [k \in Key |-> ViewOf(sc, m, i)[k]]  BY DEF ViewOf
  <1>2. ViewOf(sc2, m2, i2) = [k \in Key |-> ViewOf(sc2, m2, i2)[k]]  BY DEF ViewOf
  <1>3. [k \in Key |-> ViewOf(sc, m, i)[k]] = [k \in Key |-> ViewOf(sc2, m2, i2)[k]]  OBVIOUS
  <1>. QED  BY <1>1, <1>2, <1>3

(* A view is a function of the keys. *)
LEMMA ViewFunction ==
    ASSUME NEW sc, NEW m, NEW i
    PROVE  ViewOf(sc, m, i) = [k \in Key |-> ViewOf(sc, m, i)[k]]
  BY DEF ViewOf

(* Either way of seeing a key. *)
LEMMA ViewCases ==
    ASSUME NEW sc \in Seq(Scope), NEW i \in 0..Len(sc), NEW k \in Key
    PROVE  \/ \E j \in (i + 1)..Len(sc) : Hides(sc, i, j, k)
           \/ \A j \in (i + 1)..Len(sc) : sc[j].prev[k] = Absent
  BY FirstBinder

-----------------------------------------------------------------------------
(* What the operations do to the views *)

(* push_scope: a scope that binds nothing hides nothing. *)
LEMMA PushViews ==
    ASSUME NEW sc \in Seq(Scope), NEW s \in Scope, \A k \in Key : s.prev[k] = Absent,
           NEW m, NEW i \in 0..Len(sc)
    PROVE  ViewOf(Append(sc, s), m, i) = ViewOf(sc, m, i)
  <1> DEFINE sc2 == Append(sc, s)
  <1>1. /\ Len(sc) \in Nat /\ sc2 \in Seq(Scope) /\ Len(sc2) = Len(sc) + 1
        /\ \A n \in 1..Len(sc) : sc2[n] = sc[n]
        /\ sc2[Len(sc) + 1] = s
    BY AppendProperties, LenProperties
  <1>. HIDE DEF sc2
  <1>2. ASSUME NEW k \in Key PROVE ViewOf(sc2, m, i)[k] = ViewOf(sc, m, i)[k]
    <2>1. CASE \E j \in (i + 1)..Len(sc) : Hides(sc, i, j, k)
      <3>1. PICK j \in (i + 1)..Len(sc) : Hides(sc, i, j, k)  BY <2>1
      <3>2. j \in (i + 1)..Len(sc2) /\ j \in 1..Len(sc)  BY <1>1
      <3>3. \A n \in (i + 1)..(j - 1) : n \in 1..Len(sc)  BY <1>1
      <3>4. Hides(sc2, i, j, k)  BY <1>1, <3>1, <3>2, <3>3 DEF Hides
      <3>5. i \in 0..Len(sc2)  BY <1>1
      <3>6. ViewOf(sc2, m, i)[k] = sc2[j].prev[k]  BY <1>1, <3>4, <3>5, ViewHidden
      <3>7. ViewOf(sc, m, i)[k] = sc[j].prev[k]  BY <3>1, ViewHidden
      <3>. QED  BY <1>1, <3>2, <3>6, <3>7
    <2>2. CASE \A j \in (i + 1)..Len(sc) : sc[j].prev[k] = Absent
      <3>1. \A j \in (i + 1)..Len(sc2) : j \in ((1..Len(sc)) \cap ((i + 1)..Len(sc))) \/ j = Len(sc) + 1
        BY <1>1
      <3>2. \A j \in (i + 1)..Len(sc2) : sc2[j].prev[k] = Absent  BY <1>1, <2>2, <3>1
      <3>. QED  BY <2>2, <3>2, ViewSeen
    <2>. QED  BY <2>1, <2>2, ViewCases
  <1>3. ViewOf(sc2, m, i) = ViewOf(sc, m, i)  BY <1>2, ViewsEqual
  <1>. QED  BY <1>3 DEF sc2

(* pop_scope: what the popped scope hid is back in the map. *)
LEMMA PopViews ==
    ASSUME NEW sc \in Seq(Scope), NEW sc2 \in Seq(Scope), NEW m, NEW m2,
           Len(sc2) = Len(sc) - 1, \A n \in 1..Len(sc2) : sc2[n] = sc[n],
           \A k \in Key : m2[k] = IF sc[Len(sc)].prev[k] # Absent THEN sc[Len(sc)].prev[k] ELSE m[k],
           NEW i \in 0..Len(sc2)
    PROVE  ViewOf(sc2, m2, i) = ViewOf(sc, m, i)
  <1>1. Len(sc) \in Nat /\ Len(sc2) \in Nat /\ i \in 0..Len(sc)  BY LenProperties
  <1>2. ASSUME NEW k \in Key PROVE ViewOf(sc2, m2, i)[k] = ViewOf(sc, m, i)[k]
    <2>1. ASSUME NEW j \in (i + 1)..Len(sc), Hides(sc, i, j, k), j # Len(sc)
          PROVE  ViewOf(sc2, m2, i)[k] = ViewOf(sc, m, i)[k]
      <3>1. j \in (i + 1)..Len(sc2) /\ j \in 1..Len(sc2)  BY <1>1, <2>1
      <3>2. \A n \in (i + 1)..(j - 1) : n \in 1..Len(sc2)  BY <1>1, <3>1
      <3>3. Hides(sc2, i, j, k)  BY <2>1, <3>1, <3>2 DEF Hides
      <3>4. ViewOf(sc2, m2, i)[k] = sc2[j].prev[k]  BY <3>3, ViewHidden
      <3>5. ViewOf(sc, m, i)[k] = sc[j].prev[k]  BY <1>1, <2>1, ViewHidden
      <3>. QED  BY <3>1, <3>4, <3>5
    <2>2. ASSUME NEW j \in (i + 1)..Len(sc), Hides(sc, i, j, k), j = Len(sc)
          PROVE  ViewOf(sc2, m2, i)[k] = ViewOf(sc, m, i)[k]
      <3>1. \A n \in (i + 1)..Len(sc2) : n \in (i + 1)..(j - 1) /\ n \in 1..Len(sc2)  BY <1>1, <2>2
      <3>2. \A n \in (i + 1)..Len(sc2) : sc2[n].prev[k] = Absent  BY <2>2, <3>1 DEF Hides
      <3>3. ViewOf(sc2, m2, i)[k] = m2[k]  BY <3>2, ViewSeen
      <3>4. ViewOf(sc, m, i)[k] = sc[j].prev[k]  BY <1>1, <2>2, ViewHidden
      <3>5. m2[k] = sc[j].prev[k]  BY <2>2 DEF Hides
      <3>. QED  BY <3>3, <3>4, <3>5
    <2>3. CASE \A j \in (i + 1)..Len(sc) : sc[j].prev[k] = Absent
      <3>1. \A n \in (i + 1)..Len(sc2) : n \in (i + 1)..Len(sc) /\ n \in 1..Len(sc2)  BY <1>1
      <3>2. \A n \in (i + 1)..Len(sc2) : sc2[n].prev[k] = Absent  BY <2>3, <3>1
      <3>3. Len(sc) \in (i + 1)..Len(sc)  BY <1>1
      <3>4. m2[k] = m[k]  BY <2>3, <3>3
      <3>. QED  BY <2>3, <3>2, <3>4, ViewSeen
    <2>. QED  BY <1>1, <2>1, <2>2, <2>3, ViewCases
  <1>. QED  BY <1>2, ViewsEqual

(* The scopes and the map before and after an insert of key k0 in scope p.  *)
Entered(sc, m, sc2, m2, p, k0, v) ==
    /\ sc \in Seq(Scope) /\ sc2 \in Seq(Scope) /\ Len(sc2) = Len(sc)
    /\ \A n \in 1..Len(sc), k \in Key : n # p \/ k # k0 => sc2[n].prev[k] = sc[n].prev[k]
    /\ sc2[p].prev[k0] = m[k0] /\ m[k0] # Absent
    /\ \A k \in Key : m2[k] = IF k = k0 THEN v ELSE m[k]

(* No other key is seen differently. *)
LEMMA EnterOtherKeys ==
    ASSUME NEW sc, NEW sc2, NEW m, NEW m2, NEW p \in 1..Len(sc), NEW k0 \in Key, NEW v,
           Entered(sc, m, sc2, m2, p, k0, v), NEW i \in 0..Len(sc)
    PROVE  \A k \in Key : k # k0 => ViewOf(sc2, m2, i)[k] = ViewOf(sc, m, i)[k]
  <1>. SUFFICES ASSUME NEW k \in Key, k # k0 PROVE ViewOf(sc2, m2, i)[k] = ViewOf(sc, m, i)[k]
    OBVIOUS
  <1>. USE DEF Entered
  <1>1. Len(sc) \in Nat /\ i \in 0..Len(sc2) /\ \A n \in (i + 1)..Len(sc) : n \in 1..Len(sc)
    BY LenProperties
  <1>2. ASSUME NEW j \in (i + 1)..Len(sc), Hides(sc, i, j, k)
        PROVE  ViewOf(sc2, m2, i)[k] = ViewOf(sc, m, i)[k]
    <2>1. \A n \in (i + 1)..(j - 1) : n \in 1..Len(sc)  BY <1>1
    <2>2. Hides(sc2, i, j, k)  BY <1>1, <1>2, <2>1 DEF Hides
    <2>3. ViewOf(sc2, m2, i)[k] = sc2[j].prev[k]  BY <1>1, <2>2, ViewHidden
    <2>4. ViewOf(sc, m, i)[k] = sc[j].prev[k]  BY <1>2, ViewHidden
    <2>. QED  BY <1>1, <2>3, <2>4
  <1>3. CASE \A j \in (i + 1)..Len(sc) : sc[j].prev[k] = Absent
    <2>1. \A j \in (i + 1)..Len(sc2) : sc2[j].prev[k] = Absent  BY <1>1, <1>3
    <2>. QED  BY <1>3, <2>1, ViewSeen
  <1>. QED  BY <1>2, <1>3, ViewCases

(* insert and insert_at of a key that neither the scope nor a scope above   *)
(* binds: the new value is seen from the scope of the entry up, the entry   *)
(* keeps the old one for the scopes below.                                  *)
LEMMA EnterViews ==
    ASSUME NEW sc, NEW sc2, NEW m, NEW m2, NEW p \in 1..Len(sc), NEW k0 \in Key, NEW v,
           Entered(sc, m, sc2, m2, p, k0, v), \A n \in p..Len(sc) : sc[n].prev[k0] = Absent,
           NEW i \in 0..Len(sc)
    PROVE  \A k \in Key : ViewOf(sc2, m2, i)[k] = IF k = k0 /\ i >= p THEN v ELSE ViewOf(sc, m, i)[k]
  <1>1. Len(sc) \in Nat /\ i \in 0..Len(sc2) /\ \A n \in (i + 1)..Len(sc) : n \in 1..Len(sc)
    BY LenProperties DEF Entered
  <1>2. \A k \in Key : k # k0 => ViewOf(sc2, m2, i)[k] = ViewOf(sc, m, i)[k]
    <2>1. \A n \in 0..Len(sc), k \in Key : k # k0 => ViewOf(sc2, m2, n)[k] = ViewOf(sc, m, n)[k]
      BY EnterOtherKeys
    <2>. QED  BY <2>1
  <1>. USE DEF Entered
  <1>3. CASE i >= p
    <2>1. \A j \in (i + 1)..Len(sc2) : j \in 1..Len(sc) /\ j # p /\ j \in p..Len(sc)  BY <1>1, <1>3
    <2>2. \A j \in (i + 1)..Len(sc2) : sc2[j].prev[k0] = Absent  BY <2>1
    <2>3. ViewOf(sc2, m2, i)[k0] = v  BY <2>2, ViewSeen
    <2>. QED  BY <1>2, <1>3, <2>3
  <1>4. CASE ~(i >= p)
    <2>1. ViewOf(sc2, m2, i)[k0] = ViewOf(sc, m, i)[k0]
      <3>1. ASSUME NEW j \in (i + 1)..Len(sc), Hides(sc, i, j, k0)
            PROVE  ViewOf(sc2, m2, i)[k0] = ViewOf(sc, m, i)[k0]
        <4>1. ~(j \in p..Len(sc))  BY <3>1 DEF Hides
        <4>2. j < p /\ j \in 1..Len(sc)  BY <1>1, <4>1
        <4>3. \A n \in (i + 1)..(j - 1) : n \in 1..Len(sc) /\ n # p  BY <1>1, <4>2
        <4>4. Hides(sc2, i, j, k0)  BY <3>1, <4>2, <4>3 DEF Hides
        <4>5. ViewOf(sc2, m2, i)[k0] = sc2[j].prev[k0]  BY <1>1, <4>4, ViewHidden
        <4>6. ViewOf(sc, m, i)[k0] = sc[j].prev[k0]  BY <3>1, ViewHidden
        <4>. QED  BY <4>2, <4>5, <4>6
      <3>2. CASE \A j \in (i + 1)..Len(sc) : sc[j].prev[k0] = Absent
        <4>1. \A n \in (i + 1)..(p - 1) : n \in 1..Len(sc) /\ n # p /\ n \in (i + 1)..Len(sc)
          BY <1>1
        <4>2. p \in (i + 1)..Len(sc2)  BY <1>1, <1>4
        <4>3. Hides(sc2, i, p, k0)  BY <3>2, <4>1, <4>2 DEF Hides
        <4>4. ViewOf(sc2, m2, i)[k0] = sc2[p].prev[k0]  BY <1>1, <4>3, ViewHidden
        <4>. QED  BY <3>2, <4>4, ViewSeen
      <3>. QED  BY <3>1, <3>2, ViewCases
    <2>. QED  BY <1>2, <1>4, <2>1
  <1>. QED  BY <1>3, <1>4

(* No scope between scope i and the top one binds the key. *)
TopIsNext(sc, i, k) == \A n \in (i + 1)..(Len(sc) - 1) : sc[n].prev[k] = Absent

(* A second insert in the top scope: the overwritten entry leaves the first *)
(* value of the key to the scopes that the entry was the next one for.      *)
LEMMA AgainViews ==
    ASSUME NEW sc, NEW sc2, NEW m, NEW m2, NEW k0 \in Key, NEW v, NEW i \in 0..Len(sc), i # Len(sc),
           Len(sc) \in 1..Len(sc), Entered(sc, m, sc2, m2, Len(sc), k0, v)
    PROVE  \A k \in Key : k = k0 =>
             ViewOf(sc2, m2, i)[k] = IF TopIsNext(sc, i, k0) THEN m[k] ELSE ViewOf(sc, m, i)[k]
  <1> DEFINE p == Len(sc)
  <1>. USE DEF Entered
  <1>1. Len(sc) \in Nat /\ i \in 0..Len(sc2) /\ \A n \in (i + 1)..Len(sc) : n \in 1..Len(sc)
    BY LenProperties
  <1>2. CASE ~TopIsNext(sc, i, k0)
    <2>1. PICK n \in (i + 1)..(p - 1) : sc[n].prev[k0] # Absent  BY <1>2 DEF TopIsNext
    <2>2. n \in (i + 1)..Len(sc) /\ n < p  BY <1>1
    <2>3. PICK j \in (i + 1)..Len(sc) : Hides(sc, i, j, k0)  BY <2>1, <2>2, FirstBinder
    <2>4. ~(n \in (i + 1)..(j - 1))  BY <2>1, <2>3 DEF Hides
    <2>5. j < p /\ j \in 1..Len(sc)  BY <1>1, <2>2, <2>4
    <2>6. \A l \in (i + 1)..(j - 1) : l \in 1..Len(sc) /\ l # p  BY <1>1, <2>5
    <2>7. Hides(sc2, i, j, k0)  BY <1>1, <2>3, <2>5, <2>6 DEF Hides
    <2>8. ViewOf(sc2, m2, i)[k0] = sc2[j].prev[k0]  BY <1>1, <2>7, ViewHidden
    <2>9. ViewOf(sc, m, i)[k0] = sc[j].prev[k0]  BY <2>3, ViewHidden
    <2>. QED  BY <1>2, <2>5, <2>8, <2>9
  <1>3. CASE TopIsNext(sc, i, k0)
    <2>1. p \in (i + 1)..Len(sc2)  BY <1>1, <1>3
    <2>2. \A n \in (i + 1)..(p - 1) : n \in 1..Len(sc) /\ n # p  BY <1>1
    <2>3. Hides(sc2, i, p, k0)  BY <1>3, <2>1, <2>2 DEF Hides, TopIsNext
    <2>4. ViewOf(sc2, m2, i)[k0] = sc2[p].prev[k0]  BY <1>1, <2>3, ViewHidden
    <2>. QED  BY <1>3, <2>4
  <1>. QED  BY <1>2, <1>3

(* replace: a scope below one that binds the key does not see the change. *)
LEMMA ReplaceViews ==
    ASSUME NEW sc \in Seq(Scope), NEW m, NEW m2, NEW i \in 0..Len(sc), NEW k \in Key,
           \E j \in (i + 1)..Len(sc) : sc[j].prev[k] # Absent
    PROVE  ViewOf(sc, m2, i)[k] = ViewOf(sc, m, i)[k]
  <1>1. PICK j : Hides(sc, i, j, k)  BY FirstBinder
  <1>. QED  BY <1>1, ViewHidden

-----------------------------------------------------------------------------
(* The state the invariant describes *)

LEMMA ScopeTypes ==
    ASSUME TypeOK
    PROVE  /\ Top \in Nat /\ scopes \in [1..Top -> Scope]
           /\ \A i \in 1..Top : /\ scopes[i] \in Scope
                                /\ scopes[i].prev \in [Key -> Val \cup {None, Absent}]
                                /\ scopes[i].index \in [Key -> Nat]
                                /\ scopes[i].kind \in Kind
                                /\ scopes[i].count \in Nat
  <1>1. Top \in Nat /\ scopes \in [1..Top -> Scope]  BY LenProperties DEF TypeOK, Top
  <1>2. \A i \in 1..Top : scopes[i] \in Scope  BY <1>1
  <1>. QED  BY <1>1, <1>2 DEF Scope

(* The view of the top scope is the map. *)
LEMMA ViewTop ==
    ASSUME NEW sc \in Seq(Scope), NEW S, NEW m \in [Key -> S]
    PROVE  ViewOf(sc, m, Len(sc)) = m
  <1>1. Len(sc) \in Nat  BY LenProperties
  <1>2. ~(\E j \in (Len(sc) + 1)..Len(sc) : TRUE)  BY <1>1
  <1>3. \A k \in Key : ViewOf(sc, m, Len(sc))[k] = m[k]  BY <1>2, ViewSeen
  <1> DEFINE f == ViewOf(sc, m, Len(sc))
  <1>4. f = [k \in Key |-> f[k]]  BY ViewFunction
  <1>. HIDE DEF f
  <1>5. \A k \in Key : f[k] = m[k]  BY <1>3 DEF f
  <1>6. f = m  BY <1>4, <1>5
  <1>. QED  BY <1>6 DEF f

(* The frames: as many as there are scopes, and a frame binds the keys of   *)
(* its scope.                                                               *)
LEMMA FrameFacts ==
    ASSUME TypeOK
    PROVE  /\ Frames = [i \in 1..Top |-> FrameOf(i)]
           /\ \A S : (\A i \in 1..Top : FrameOf(i) \in S) => Frames \in Seq(S)
           /\ Len(Frames) = Top
           /\ \A i \in 1..Top : Frames[i] = FrameOf(i)
           /\ \A i \in 1..Top : Reference!Bound(i) = {k \in Key : Binds(i, k)}
           /\ Frames = <<>> <=> Top = 0
  <1>1. Top \in Nat  BY ScopeTypes
  <1>2. Frames = [i \in 1..Top |-> FrameOf(i)]  BY DEF Frames
  <1>3. ASSUME NEW S, \A i \in 1..Top : FrameOf(i) \in S PROVE Frames \in Seq(S)
    BY <1>1, <1>2, <1>3, IsASeq
  <1>4. Frames \in Seq({FrameOf(i) : i \in 1..Top})  BY <1>3
  <1>5. DOMAIN Frames = 1..Top  BY <1>2
  <1>6. Len(Frames) \in Nat /\ DOMAIN Frames = 1..Len(Frames)  BY <1>4, LenProperties
  <1>7. Len(Frames) = Top  BY <1>1, <1>5, <1>6
  <1>8. \A i \in 1..Top : Frames[i] = FrameOf(i)  BY <1>2
  <1>9. ASSUME NEW i \in 1..Top PROVE Reference!Bound(i) = {k \in Key : Binds(i, k)}
    <2>1. Frames[i].pos = PosOf(scopes[i])
      <3>1. Frames[i] = FrameOf(i)  BY <1>8
      <3>2. FrameOf(i).pos = PosOf(scopes[i])  BY DEF FrameOf
      <3>. QED  BY <3>1, <3>2
    <2>2. \A k \in Key : PosOf(scopes[i])[k] >= 0 <=> Binds(i, k)
      BY ScopeTypes DEF PosOf, Binds
    <2>. QED  BY <2>1, <2>2 DEF Reference!Bound
  <1>10. Frames = <<>> <=> Top = 0  BY <1>4, <1>7, EmptySeq
  <1>. QED  BY <1>2, <1>3, <1>7, <1>8, <1>9, <1>10

(* The reference's current view is the map, with no scope left too. *)
LEMMA TopViewIsMap ==
    ASSUME MapInv
    PROVE  Reference!TopView = map
  <1>1. TypeOK /\ Top \in Nat  BY ScopeTypes DEF MapInv
  <1>2. ViewOf(scopes, map, Top) = map  BY <1>1, ViewTop DEF TypeOK, Top
  <1>3. Len(Frames) = Top  BY <1>1, FrameFacts
  <1>4. CASE Top = 0  BY <1>2, <1>3, <1>4 DEF Reference!TopView, Reference!Depth, Below
  <1>5. CASE Top # 0
    <2>1. Top \in 1..Top  BY <1>1, <1>5
    <2>2. FrameOf(Top).view = map  BY <1>2 DEF FrameOf
    <2>3. Frames[Top] = FrameOf(Top)  BY <1>1, <2>1, FrameFacts
    <2>. QED  BY <1>3, <1>5, <2>2, <2>3 DEF Reference!TopView, Reference!Depth
  <1>. QED  BY <1>4, <1>5

(* The reference protects the keys of cannot_shadow. *)
LEMMA ProtectedIsCannotShadow ==
    ASSUME MapInv, NEW k \in Key
    PROVE  Reference!Protected(k) <=> k \in cannotShadow
  <1>1. /\ Len(Frames) = Top
        /\ \A i \in 1..Top : Frames[i].kind = scopes[i].kind
        /\ \A i \in 1..Top : Reference!Bound(i) = {l \in Key : Binds(i, l)}
    BY FrameFacts DEF MapInv, FrameOf
  <1>2. Reference!Protected(k) <=> \E i \in 1..Top : scopes[i].kind = "unique" /\ Binds(i, k)
    BY <1>1 DEF Reference!Protected, Reference!Depth
  <1>. QED  BY <1>2 DEF MapInv, ProtectedOnce

-----------------------------------------------------------------------------
(* Each operation keeps the invariant and takes the reference's step *)

LEMMA AppendIs ==
    ASSUME NEW S, NEW f \in Seq(S), NEW g \in Seq(S), Len(g) = Len(f) + 1,
           \A i \in 1..Len(f) : g[i] = f[i]
    PROVE  g = Append(f, g[Len(g)])
  <1> DEFINE x == g[Len(g)]
             h == Append(f, x)
  <1>1. Len(f) \in Nat /\ Len(g) \in Nat /\ Len(g) \in 1..Len(g)  BY LenProperties
  <1>2. x \in S  BY <1>1, ElementOfSeq
  <1>. HIDE DEF x
  <1>3. /\ h \in Seq(S) /\ Len(h) = Len(f) + 1
        /\ (\A i \in 1..Len(f) : h[i] = f[i]) /\ h[Len(f) + 1] = x
    BY <1>2, AppendProperties
  <1>. HIDE DEF h
  <1>4. \A i \in 1..Len(g) : g[i] = h[i]
    <2>. SUFFICES ASSUME NEW i \in 1..Len(g) PROVE g[i] = h[i]  OBVIOUS
    <2>1. CASE i = Len(f) + 1  BY <1>3, <2>1 DEF x
    <2>2. CASE i # Len(f) + 1
      <3>1. i \in 1..Len(f)  BY <1>1, <2>2
      <3>. QED  BY <1>3, <3>1
    <2>. QED  BY <2>1, <2>2
  <1>5. g = h  BY <1>3, <1>4, SeqEqual
  <1>. QED  BY <1>5 DEF h, x

LEMMA SubSeqIs ==
    ASSUME NEW S, NEW f \in Seq(S), NEW g \in Seq(S), Len(f) = Len(g) + 1,
           \A i \in 1..Len(g) : g[i] = f[i]
    PROVE  g = SubSeq(f, 1, Len(g))
  <1> DEFINE h == SubSeq(f, 1, Len(g))
  <1>1. Len(f) \in Nat /\ Len(g) \in Nat  BY LenProperties
  <1>2. \A i \in 1..Len(g) : i \in 1..Len(f)  BY <1>1
  <1>3. \A i \in 1..Len(g) : f[i] \in S  BY <1>2, ElementOfSeq
  <1>4. /\ h \in Seq(S) /\ Len(h) = IF 1 <= Len(g) THEN Len(g) - 1 + 1 ELSE 0
        /\ \A i \in 1..(Len(g) - 1 + 1) : h[i] = f[1 + i - 1]
    BY <1>1, <1>3, SubSeqProperties
  <1>. HIDE DEF h
  <1>5. Len(h) = Len(g) /\ \A i \in 1..Len(g) : g[i] = h[i]  BY <1>1, <1>4
  <1>6. g = h  BY <1>4, <1>5, SeqEqual
  <1>. QED  BY <1>6 DEF h

(* A frame is its scope and its view. *)
LEMMA SameFrame ==
    ASSUME NEW i, scopes'[i] = scopes[i], ViewOf(scopes', map', i) = ViewOf(scopes, map, i)
    PROVE  FrameOf(i)' = FrameOf(i)
  BY DEF FrameOf

LEMMA PushStep ==
    ASSUME MapInv, NEW kind \in Kind, PushScope(kind)
    PROVE  MapInv' /\ Reference!PushFrame(kind)
  <1>1. /\ TypeOK /\ twice' = twice
        /\ map' = map /\ cannotShadow' = cannotShadow /\ result' = result
    BY DEF MapInv, PushScope
  <1>2. Top \in Nat /\ scopes \in Seq(Scope)  BY <1>1, ScopeTypes DEF TypeOK
  <1> DEFINE s == NewScope(kind)
  <1>3. s \in Scope /\ (\A k \in Key : s.prev[k] = Absent) /\ s.kind = kind /\ s.count = 0
    BY DEF NewScope, Scope
  <1>. HIDE DEF s
  <1>4. scopes' = Append(scopes, s)  BY DEF PushScope, s
  <1>5. /\ scopes' \in Seq(Scope) /\ Top' = Top + 1
        /\ (\A i \in 1..Top : scopes'[i] = scopes[i]) /\ scopes'[Top + 1] = s
    BY <1>2, <1>3, <1>4, AppendProperties DEF Top
  <1>6. \A i \in 0..Top : ViewOf(scopes', map', i) = ViewOf(scopes, map, i)
    BY <1>1, <1>2, <1>3, <1>4, PushViews DEF Top
  <1>7. \A i \in 1..Top' : i \in 1..Top \/ i = Top + 1  BY <1>2, <1>5
  <1>8. MapInv'
    <2>1. TypeOK'  BY <1>1, <1>5 DEF TypeOK
    <2>2. ProtectedOnce'
      <3>1. \A k \in Key : (\E i \in 1..Top' : scopes'[i].kind = "unique" /\ scopes'[i].prev[k] # Absent)
                           <=> \E i \in 1..Top : scopes[i].kind = "unique" /\ scopes[i].prev[k] # Absent
        <4>1. \A i \in 1..Top : i \in 1..Top'  BY <1>2, <1>5
        <4>. QED  BY <1>3, <1>5, <1>7, <4>1
      <3>2. \A i, j \in 1..Top', k \in Key :
              i < j /\ scopes'[i].kind = "unique" /\ scopes'[i].prev[k] # Absent => scopes'[j].prev[k] = Absent
        <4>. SUFFICES ASSUME NEW i \in 1..Top', NEW j \in 1..Top', NEW k \in Key, i < j,
                             scopes'[i].kind = "unique", scopes'[i].prev[k] # Absent
                      PROVE  scopes'[j].prev[k] = Absent
          OBVIOUS
        <4>1. CASE j = Top + 1  BY <1>3, <1>5, <4>1
        <4>2. CASE j \in 1..Top
          <5>1. i \in 1..Top  BY <1>2, <1>5, <4>2
          <5>. QED  BY <1>1, <1>5, <4>2, <5>1 DEF MapInv, ProtectedOnce, Binds
        <4>. QED  BY <1>7, <4>1, <4>2
      <3>. QED  BY <1>1, <3>1, <3>2 DEF MapInv, ProtectedOnce, Binds
    <2>3. PositionsDistinct'
      <3>. SUFFICES ASSUME NEW i \in 1..Top', NEW k \in Key, scopes'[i].prev[k] # Absent
                    PROVE  /\ scopes'[i].index[k] < scopes'[i].count
                           /\ \A l \in Key : scopes'[i].prev[l] # Absent
                                               /\ scopes'[i].index[l] = scopes'[i].index[k] => l = k
        BY DEF PositionsDistinct, Binds
      <3>1. i \in 1..Top /\ scopes'[i] = scopes[i]  BY <1>3, <1>5, <1>7
      <3>. QED  BY <3>1 DEF MapInv, PositionsDistinct, Binds
    <2>4. EmptyBelow'
      <3>1. 0 \in 0..Top  BY <1>2
      <3>. QED  BY <1>1, <1>6, <3>1 DEF MapInv, EmptyBelow, Below
    <2>. QED  BY <2>1, <2>2, <2>3, <2>4 DEF MapInv
  <1>9. Reference!PushFrame(kind)
    <2> DEFINE S == {FrameOf(i)' : i \in 1..(Top + 1)}
    <2>1. \A i \in 1..Top : FrameOf(i)' = FrameOf(i)
      <3>1. \A i \in 1..Top : i \in 0..Top  BY <1>2
      <3>. QED  BY <1>5, <1>6, <3>1, SameFrame
    <2>2. Frames' = [i \in 1..(Top + 1) |-> FrameOf(i)']  BY <1>1, <1>5 DEF Frames
    <2>3. Frames' \in Seq(S)  BY <1>2, <2>2
    <2>4. \A i \in 1..Top : i \in 1..(Top + 1)  BY <1>2
    <2>5. \A i \in 1..Top : FrameOf(i) \in S  BY <2>1, <2>4
    <2>. HIDE DEF S
    <2>6. Frames \in Seq(S) /\ Len(Frames) = Top /\ \A i \in 1..Top : Frames[i] = FrameOf(i)
      BY <1>1, <2>5, FrameFacts
    <2>7. Len(Frames') = Top + 1
      <3>1. DOMAIN Frames' = 1..(Top + 1)  BY <2>2
      <3>2. Len(Frames') \in Nat /\ DOMAIN Frames' = 1..Len(Frames')  BY <2>3, LenProperties
      <3>. QED  BY <1>2, <3>1, <3>2
    <2>8. \A i \in 1..Top : Frames'[i] = Frames[i]  BY <2>1, <2>2, <2>4, <2>6
    <2>9. Frames' = Append(Frames, Frames'[Top + 1])
      <3>1. Frames' = Append(Frames, Frames'[Len(Frames')])  BY <2>3, <2>6, <2>7, <2>8, AppendIs
      <3>. QED  BY <2>7, <3>1
    <2>10. Frames'[Top + 1] = [view |-> map, pos |-> [k \in Key |-> -1], kind |-> kind, count |-> 0]
      <3>1. ViewOf(scopes', map', Top + 1) = map
        <4>1. ViewOf(scopes', map', Len(scopes')) = map'  BY <1>1, <1>5, ViewTop DEF TypeOK
        <4>. QED  BY <1>1, <1>5, <4>1 DEF Top
      <3>2. PosOf(s) = [k \in Key |-> -1]  BY <1>3 DEF PosOf
      <3>3. Top + 1 \in 1..(Top + 1)  BY <1>2
      <3>4. Frames'[Top + 1] = [view |-> ViewOf(scopes', map', Top + 1), pos |-> PosOf(scopes'[Top + 1]),
                                kind |-> scopes'[Top + 1].kind, count |-> scopes'[Top + 1].count]
        BY <2>2, <3>3 DEF FrameOf
      <3>. QED  BY <1>3, <1>5, <3>1, <3>2, <3>4
    <2>11. Below' = Below
      <3>1. 0 \in 0..Top  BY <1>2
      <3>. QED  BY <1>6, <3>1 DEF Below
    <2>. QED  BY <1>1, <2>9, <2>10, <2>11, TopViewIsMap DEF Reference!PushFrame
  <1>. QED  BY <1>8, <1>9

LEMMA PopStep ==
    ASSUME MapInv, PopScope
    PROVE  MapInv' /\ Reference!PopFrame
  <1>1. TypeOK /\ twice' = twice /\ result' = result  BY DEF MapInv, PopScope
  <1>2. /\ Top \in Nat /\ Top \in 1..Top /\ scopes \in Seq(Scope)
        /\ \A i \in 1..Top : scopes[i] \in Scope /\ scopes[i].prev \in [Key -> Val \cup {None, Absent}]
    BY <1>1, ScopeTypes DEF TypeOK, PopScope
  <1> DEFINE n == Top - 1
  <1>3. n \in Nat /\ Top = n + 1 /\ \A i \in 1..n : i \in 1..Top /\ i # Top  BY <1>2
  <1>4. /\ scopes' \in Seq(Scope) /\ Top' = n
        /\ \A i \in 1..n : scopes'[i] = scopes[i]
    <2> DEFINE h == SubSeq(scopes, 1, n)
    <2>1. \A i \in 1..n : scopes[i] \in Scope  BY <1>2, <1>3
    <2>2. /\ h \in Seq(Scope) /\ Len(h) = IF 1 <= n THEN n - 1 + 1 ELSE 0
          /\ \A i \in 1..(n - 1 + 1) : h[i] = scopes[1 + i - 1]
      BY <1>3, <2>1, SubSeqProperties
    <2>3. scopes' = h  BY DEF PopScope
    <2>. HIDE DEF h, n
    <2>4. Len(h) = n /\ \A i \in 1..n : h[i] = scopes[i]  BY <1>3, <2>2
    <2>. QED  BY <2>2, <2>3, <2>4 DEF Top
  <1>. HIDE DEF n
  <1>5. \A k \in Key : map'[k] = IF scopes[Top].prev[k] # Absent THEN scopes[Top].prev[k] ELSE map[k]
    BY DEF PopScope, Restored, Binds
  <1>6. map' \in [Key -> Val \cup {None}]
    <2>1. \A k \in Key : map[k] \in Val \cup {None}  BY <1>1 DEF TypeOK
    <2>2. \A k \in Key : scopes[Top].prev[k] \in Val \cup {None, Absent}  BY <1>2
    <2>3. map' = [k \in Key |-> IF scopes[Top].prev[k] # Absent THEN scopes[Top].prev[k] ELSE map[k]]
      BY DEF PopScope, Restored, Binds
    <2>. QED  BY <2>1, <2>2, <2>3
  <1>7. \A i \in 0..n : ViewOf(scopes', map', i) = ViewOf(scopes, map, i)
    <2>. SUFFICES ASSUME NEW i \in 0..n PROVE ViewOf(scopes', map', i) = ViewOf(scopes, map, i)
      OBVIOUS
    <2>1. /\ Len(scopes') = Len(scopes) - 1 /\ i \in 0..Len(scopes')
          /\ \A j \in 1..Len(scopes') : scopes'[j] = scopes[j]
      <3>1. Len(scopes') = n  BY <1>4 DEF Top
      <3>2. Len(scopes) - 1 = n  BY DEF Top, n
      <3>. QED  BY <1>4, <3>1, <3>2
    <2>2. \A k \in Key : map'[k] = IF scopes[Len(scopes)].prev[k] # Absent
                                   THEN scopes[Len(scopes)].prev[k] ELSE map[k]
      BY <1>5 DEF Top
    <2>. QED  BY <1>2, <1>4, <2>1, <2>2, PopViews
  <1>8. MapInv'
    <2>1. TypeOK'  BY <1>1, <1>4, <1>6 DEF TypeOK
    <2>2. ProtectedOnce'
      <3>1. /\ cannotShadow \subseteq Key
            /\ \A k \in Key : k \in cannotShadow
                              <=> \E i \in 1..Top : scopes[i].kind = "unique" /\ scopes[i].prev[k] # Absent
            /\ \A i, j \in 1..Top, k \in Key :
                 i < j /\ scopes[i].kind = "unique" /\ scopes[i].prev[k] # Absent => scopes[j].prev[k] = Absent
        BY <1>1 DEF MapInv, ProtectedOnce, Binds
      <3>2. cannotShadow' \subseteq Key /\ \A k \in Key : k \in cannotShadow' <=>
              k \in cannotShadow /\ (scopes[Top].kind = "unique" => scopes[Top].prev[k] = Absent)
        BY <3>1 DEF PopScope, Binds
      <3>3. ASSUME NEW k \in Key
            PROVE  k \in cannotShadow' <=> \E i \in 1..n : scopes'[i].kind = "unique" /\ scopes'[i].prev[k] # Absent
        <4>1. ASSUME k \in cannotShadow'
              PROVE  \E i \in 1..n : scopes'[i].kind = "unique" /\ scopes'[i].prev[k] # Absent
          <5>1. PICK i \in 1..Top : scopes[i].kind = "unique" /\ scopes[i].prev[k] # Absent
            BY <3>1, <3>2, <4>1
          <5>2. i # Top  BY <3>2, <4>1, <5>1
          <5>3. i \in 1..n  BY <1>3, <5>2
          <5>. QED  BY <1>4, <5>1, <5>3
        <4>2. ASSUME NEW i \in 1..n, scopes'[i].kind = "unique", scopes'[i].prev[k] # Absent
              PROVE  k \in cannotShadow'
          <5>1. i \in 1..Top /\ i < Top  BY <1>3
          <5>2. scopes[i].kind = "unique" /\ scopes[i].prev[k] # Absent  BY <1>4, <4>2
          <5>3. scopes[Top].prev[k] = Absent  BY <1>2, <3>1, <5>1, <5>2
          <5>. QED  BY <3>1, <3>2, <5>1, <5>2, <5>3
        <4>. QED  BY <4>1, <4>2
      <3>4. cannotShadow' = {k \in Key : \E i \in 1..n : scopes'[i].kind = "unique" /\ scopes'[i].prev[k] # Absent}
        BY <3>2, <3>3
      <3>5. \A i, j \in 1..n, k \in Key :
              i < j /\ scopes'[i].kind = "unique" /\ scopes'[i].prev[k] # Absent => scopes'[j].prev[k] = Absent
        BY <1>3, <1>4, <3>1
      <3>. QED  BY <1>4, <3>4, <3>5 DEF ProtectedOnce, Binds
    <2>3. PositionsDistinct'
      <3>. SUFFICES ASSUME NEW i \in 1..n, NEW k \in Key, scopes'[i].prev[k] # Absent
                    PROVE  /\ scopes'[i].index[k] < scopes'[i].count
                           /\ \A l \in Key : scopes'[i].prev[l] # Absent
                                               /\ scopes'[i].index[l] = scopes'[i].index[k] => l = k
        BY <1>4 DEF PositionsDistinct, Binds
      <3>1. i \in 1..Top /\ scopes'[i] = scopes[i]  BY <1>3, <1>4
      <3>. QED  BY <3>1 DEF MapInv, PositionsDistinct, Binds
    <2>4. EmptyBelow'
      <3>1. 0 \in 0..n  BY <1>3
      <3>. QED  BY <1>1, <1>7, <3>1 DEF MapInv, EmptyBelow, Below
    <2>. QED  BY <2>1, <2>2, <2>3, <2>4 DEF MapInv
  <1>9. Reference!PopFrame
    <2> DEFINE S == {FrameOf(i) : i \in 1..Top}
    <2>1. \A i \in 1..n : FrameOf(i)' = FrameOf(i)
      <3>1. \A i \in 1..n : i \in 0..n  BY <1>3
      <3>. QED  BY <1>4, <1>7, <3>1, SameFrame
    <2>2. Frames' = [i \in 1..n |-> FrameOf(i)']  BY <1>1, <1>4 DEF Frames
    <2>3. Frames' \in Seq(S)
      <3>1. \A i \in 1..n : FrameOf(i)' \in S  BY <1>3, <2>1
      <3>. HIDE DEF S
      <3>. QED  BY <1>3, <2>2, <3>1
    <2>4. \A i \in 1..Top : FrameOf(i) \in S  OBVIOUS
    <2>. HIDE DEF S
    <2>5. /\ Frames \in Seq(S) /\ Len(Frames) = Top /\ Frames # <<>>
          /\ \A i \in 1..Top : Frames[i] = FrameOf(i)
      BY <1>1, <1>3, <2>4, FrameFacts
    <2>6. Len(Frames') = n
      <3>1. DOMAIN Frames' = 1..n  BY <2>2
      <3>2. Len(Frames') \in Nat /\ DOMAIN Frames' = 1..Len(Frames')  BY <2>3, LenProperties
      <3>. QED  BY <1>3, <3>1, <3>2
    <2>7. \A i \in 1..n : Frames'[i] = Frames[i]  BY <1>3, <2>1, <2>2, <2>5
    <2>8. Frames' = SubSeq(Frames, 1, n)
      <3>1. Frames' = SubSeq(Frames, 1, Len(Frames'))  BY <1>3, <2>3, <2>5, <2>6, <2>7, SubSeqIs
      <3>. QED  BY <2>6, <3>1
    <2>9. Below' = Below
      <3>1. 0 \in 0..n  BY <1>3
      <3>. QED  BY <1>7, <3>1 DEF Below
    <2>. QED  BY <1>1, <2>5, <2>8, <2>9 DEF Reference!PopFrame, Reference!Depth, n
  <1>. QED  BY <1>8, <1>9

(* insert and insert_at past the check of cannot_shadow, whether or not the *)
(* scope has an entry for the key.                                          *)
LEMMA EnterState ==
    ASSUME MapInv, NEW p \in 1..Top, NEW k0 \in Key, NEW v \in Val,
           \A i \in (p + 1)..Top : ~Binds(i, k0), Enter(p, k0, v)
    PROVE  /\ TypeOK' /\ ProtectedOnce' /\ PositionsDistinct' /\ Top' = Top
           /\ Entered(scopes, map, scopes', map', p, k0, v)
           /\ \A i \in 1..Top : scopes'[i].kind = scopes[i].kind
           /\ \A i \in 1..Top : i # p => scopes'[i] = scopes[i]
           /\ PosOf(scopes'[p]) = [PosOf(scopes[p]) EXCEPT ![k0] = scopes[p].count]
           /\ scopes'[p].count = scopes[p].count + 1
  <1>1. TypeOK /\ k0 \notin cannotShadow  BY DEF MapInv, Enter
  <1>2. /\ Top \in Nat /\ scopes \in Seq(Scope)
        /\ scopes[p] \in Scope /\ scopes[p].prev \in [Key -> Val \cup {None, Absent}]
        /\ scopes[p].index \in [Key -> Nat] /\ scopes[p].count \in Nat /\ scopes[p].kind \in Kind
    BY <1>1, ScopeTypes DEF TypeOK
  <1>3. map \in [Key -> Val \cup {None}] /\ map' = [map EXCEPT ![k0] = v] /\ map[k0] \in Val \cup {None}
    BY <1>1 DEF TypeOK, Enter
  <1> DEFINE s == WithEntry(scopes[p], k0)
  <1>4. /\ s \in Scope /\ s.kind = scopes[p].kind /\ s.count = scopes[p].count + 1
        /\ s.prev = [scopes[p].prev EXCEPT ![k0] = map[k0]]
        /\ s.index = [scopes[p].index EXCEPT ![k0] = scopes[p].count]
    <2> DEFINE pv == [scopes[p].prev EXCEPT ![k0] = map[k0]]
               ix == [scopes[p].index EXCEPT ![k0] = scopes[p].count]
    <2>1. s = [prev |-> pv, index |-> ix, kind |-> scopes[p].kind, count |-> scopes[p].count + 1]
      BY DEF WithEntry
    <2>2. pv \in [Key -> Val \cup {None, Absent}] /\ ix \in [Key -> Nat]  BY <1>2, <1>3
    <2>. HIDE DEF s, pv, ix
    <2>3. /\ s \in Scope /\ s.kind = scopes[p].kind /\ s.count = scopes[p].count + 1
          /\ s.prev = pv /\ s.index = ix
      BY <1>2, <2>1, <2>2 DEF Scope
    <2>. QED  BY <2>3 DEF pv, ix
  <1>. HIDE DEF s
  <1>5. /\ scopes' \in Seq(Scope) /\ Top' = Top
        /\ \A i \in 1..Top : scopes'[i] = IF i = p THEN s ELSE scopes[i]
    <2>1. scopes' = [scopes EXCEPT ![p] = s]  BY DEF Enter, s
    <2>. QED  BY <1>2, <1>4, <2>1, ExceptSeq DEF Top
  <1>6. map' \in [Key -> Val \cup {None}] /\ \A k \in Key : map'[k] = IF k = k0 THEN v ELSE map[k]
    BY <1>3
  <1>7. map[k0] # Absent  BY <1>3, ScopeMapAssumption
  <1>8. /\ \A i \in 1..Top, k \in Key : i # p \/ k # k0 => scopes'[i].prev[k] = scopes[i].prev[k]
        /\ scopes'[p].prev[k0] = map[k0]
    BY <1>2, <1>4, <1>5
  <1>9. \A i \in (p + 1)..Top : scopes[i].prev[k0] = Absent  BY DEF Binds
  <1>10. TypeOK'  BY <1>1, <1>5, <1>6 DEF TypeOK
  <1>11. ProtectedOnce'
    <2>1. /\ cannotShadow \subseteq Key
          /\ \A k \in Key : k \in cannotShadow
                            <=> \E i \in 1..Top : scopes[i].kind = "unique" /\ scopes[i].prev[k] # Absent
          /\ \A i, j \in 1..Top, k \in Key :
               i < j /\ scopes[i].kind = "unique" /\ scopes[i].prev[k] # Absent => scopes[j].prev[k] = Absent
      BY DEF MapInv, ProtectedOnce, Binds
    <2>2. \A i \in 1..Top : scopes'[i].kind = scopes[i].kind  BY <1>4, <1>5
    <2>3. \A i \in 1..Top : i # p /\ scopes[i].kind = "unique" => scopes'[i].prev[k0] = Absent
      BY <1>1, <1>8, <2>1
    <2>4. /\ cannotShadow' \subseteq Key
          /\ \A k \in Key : k \in cannotShadow' <=> k \in cannotShadow \/ (k = k0 /\ scopes[p].kind = "unique")
      BY <2>1 DEF Enter
    <2>5. \A k \in Key : k \in cannotShadow'
                         <=> \E i \in 1..Top : scopes'[i].kind = "unique" /\ scopes'[i].prev[k] # Absent
      <3>. SUFFICES ASSUME NEW k \in Key
                    PROVE  k \in cannotShadow' <=>
                             \E i \in 1..Top : scopes'[i].kind = "unique" /\ scopes'[i].prev[k] # Absent
        OBVIOUS
      <3>1. CASE k = k0  BY <1>1, <1>7, <1>8, <2>2, <2>3, <2>4, <3>1
      <3>2. CASE k # k0  BY <1>8, <2>1, <2>2, <2>4, <3>2
      <3>. QED  BY <3>1, <3>2
    <2>6. \A i, j \in 1..Top, k \in Key :
            i < j /\ scopes'[i].kind = "unique" /\ scopes'[i].prev[k] # Absent => scopes'[j].prev[k] = Absent
      <3>. SUFFICES ASSUME NEW i \in 1..Top, NEW j \in 1..Top, NEW k \in Key, i < j,
                           scopes'[i].kind = "unique", scopes'[i].prev[k] # Absent
                    PROVE  scopes'[j].prev[k] = Absent
        OBVIOUS
      <3>1. CASE k = k0
        <4>1. i = p  BY <2>2, <2>3, <3>1
        <4>2. j \in (p + 1)..Top  BY <1>2, <4>1
        <4>. QED  BY <1>8, <1>9, <3>1, <4>2
      <3>2. CASE k # k0  BY <1>8, <2>1, <2>2, <3>2
      <3>. QED  BY <3>1, <3>2
    <2>7. cannotShadow' = {k \in Key : \E i \in 1..Top : scopes'[i].kind = "unique" /\ scopes'[i].prev[k] # Absent}
      BY <2>4, <2>5
    <2>. QED  BY <1>5, <2>6, <2>7 DEF ProtectedOnce, Binds
  <1>12. /\ \A i \in 1..Top : scopes'[i].kind = scopes[i].kind
         /\ \A i \in 1..Top : i # p => scopes'[i] = scopes[i]
         /\ scopes'[p] = s
    BY <1>4, <1>5
  <1>13. PositionsDistinct'
    <2>. SUFFICES ASSUME NEW i \in 1..Top, NEW k \in Key, scopes'[i].prev[k] # Absent
                  PROVE  /\ scopes'[i].index[k] < scopes'[i].count
                         /\ \A l \in Key : scopes'[i].prev[l] # Absent
                                             /\ scopes'[i].index[l] = scopes'[i].index[k] => l = k
      BY <1>5 DEF PositionsDistinct, Binds
    <2>1. \A l \in Key : scopes[i].prev[l] # Absent =>
            /\ scopes[i].index[l] < scopes[i].count
            /\ \A h \in Key : scopes[i].prev[h] # Absent /\ scopes[i].index[h] = scopes[i].index[l] => h = l
      BY DEF MapInv, PositionsDistinct, Binds
    <2>2. CASE i # p  BY <1>12, <2>1, <2>2
    <2>3. CASE i = p
      <3>1. scopes'[i].count = scopes[i].count + 1  BY <1>4, <1>12, <2>3
      <3>2. \A l \in Key : scopes'[i].index[l] = IF l = k0 THEN scopes[i].count ELSE scopes[i].index[l]
        BY <1>2, <1>4, <1>12, <2>3
      <3>3. \A l \in Key : l # k0 /\ scopes'[i].prev[l] # Absent =>
              /\ scopes[i].prev[l] # Absent /\ scopes[i].index[l] < scopes[i].count
        BY <1>8, <2>1
      <3>4. scopes[i].count \in Nat /\ \A l \in Key : scopes[i].index[l] \in Nat  BY <1>2, <2>3
      <3>5. CASE k = k0  BY <3>1, <3>2, <3>3, <3>4, <3>5
      <3>6. CASE k # k0
        <4>1. scopes[i].prev[k] # Absent /\ scopes[i].index[k] < scopes[i].count  BY <3>3, <3>6
        <4>2. scopes'[i].index[k] = scopes[i].index[k]  BY <3>2, <3>6
        <4>3. scopes'[i].index[k] < scopes'[i].count  BY <3>1, <3>4, <4>1, <4>2
        <4>4. ASSUME NEW l \in Key, scopes'[i].prev[l] # Absent, scopes'[i].index[l] = scopes'[i].index[k]
              PROVE  l = k
          <5>1. l # k0  BY <3>2, <3>4, <4>1, <4>2, <4>4
          <5>2. scopes[i].prev[l] # Absent /\ scopes[i].index[l] = scopes[i].index[k]
            BY <3>2, <3>3, <4>2, <4>4, <5>1
          <5>. QED  BY <2>1, <4>1, <5>2
        <4>. QED  BY <4>3, <4>4
      <3>. QED  BY <3>5, <3>6
    <2>. QED  BY <2>2, <2>3
  <1>14. Entered(scopes, map, scopes', map', p, k0, v)
    BY <1>2, <1>5, <1>6, <1>7, <1>8 DEF Entered, Top
  <1>15. PosOf(s) = [PosOf(scopes[p]) EXCEPT ![k0] = scopes[p].count]
    BY <1>2, <1>4, <1>7 DEF PosOf
  <1>. QED  BY <1>4, <1>5, <1>10, <1>11, <1>12, <1>13, <1>14, <1>15

(* The frames after an insert, from the views it leaves. *)
LEMMA EnterFrames ==
    ASSUME MapInv, NEW p \in 1..Top, NEW k0 \in Key, NEW v \in Val,
           \A i \in (p + 1)..Top : ~Binds(i, k0), Enter(p, k0, v),
           NEW W, \A j \in 1..Top : ViewOf(scopes', map', j) = W[j]
    PROVE  /\ Reference!Depth = Top
           /\ Frames' = [j \in 1..Top |-> Reference!Numbered(j, p, k0, W[j])]
  <1>1. /\ Top' = Top
        /\ \A i \in 1..Top : scopes'[i].kind = scopes[i].kind
        /\ \A i \in 1..Top : i # p => scopes'[i] = scopes[i]
        /\ PosOf(scopes'[p]) = [PosOf(scopes[p]) EXCEPT ![k0] = scopes[p].count]
        /\ scopes'[p].count = scopes[p].count + 1
    BY EnterState
  <1>2. TypeOK  BY DEF MapInv
  <1>3. Len(Frames) = Top /\ \A j \in 1..Top : Frames[j] = FrameOf(j)  BY <1>2, FrameFacts
  <1>4. ASSUME NEW j \in 1..Top PROVE FrameOf(j)' = Reference!Numbered(j, p, k0, W[j])
    <2>1. /\ Frames[j].pos = PosOf(scopes[j]) /\ Frames[j].kind = scopes[j].kind
          /\ Frames[j].count = scopes[j].count
      BY <1>3 DEF FrameOf
    <2>2. FrameOf(j)' = [view |-> ViewOf(scopes', map', j), pos |-> PosOf(scopes'[j]),
                         kind |-> scopes'[j].kind, count |-> scopes'[j].count]
      BY DEF FrameOf
    <2>3. CASE j = p  BY <1>1, <2>1, <2>2, <2>3 DEF Reference!Numbered
    <2>4. CASE j # p  BY <1>1, <2>1, <2>2, <2>4 DEF Reference!Numbered
    <2>. QED  BY <2>3, <2>4
  <1>5. Frames' = [j \in 1..Top |-> FrameOf(j)']  BY <1>1 DEF Frames
  <1>6. Frames' = [j \in 1..Top |-> Reference!Numbered(j, p, k0, W[j])]  BY <1>4, <1>5
  <1>. QED  BY <1>3, <1>6 DEF Reference!Depth

(* insert and insert_at of a key that neither the scope nor a scope above   *)
(* binds.                                                                   *)
LEMMA EnterStep ==
    ASSUME MapInv, NEW p \in 1..Top, NEW k0 \in Key, NEW v \in Val,
           \A i \in p..Top : ~Binds(i, k0), Enter(p, k0, v)
    PROVE  MapInv' /\ Reference!Bind(p, k0, v)
  <1>1. TypeOK /\ Top \in Nat /\ Top = Len(scopes)  BY ScopeTypes DEF MapInv, Top
  <1>2. \A i \in (p + 1)..Top : ~Binds(i, k0)
    <2>1. \A i \in (p + 1)..Top : i \in p..Top  BY <1>1
    <2>. QED  BY <2>1
  <1>3. TypeOK' /\ ProtectedOnce' /\ PositionsDistinct' /\ Entered(scopes, map, scopes', map', p, k0, v)
    BY <1>2, EnterState
  <1>4. twice' = twice /\ result' = "ok"
    <2>1. p \in p..Top  BY <1>1
    <2>. QED  BY <2>1 DEF Enter
  <1>5. \A i \in 0..Top, k \in Key :
          ViewOf(scopes', map', i)[k] = IF k = k0 /\ i >= p THEN v ELSE ViewOf(scopes, map, i)[k]
    <2>1. \A n \in p..Len(scopes) : scopes[n].prev[k0] = Absent  BY <1>1 DEF Binds
    <2>. QED  BY <1>1, <1>3, <2>1, EnterViews
  <1>6. Below' = Below
    <2>1. 0 \in 0..Top /\ ~(0 >= p)  BY <1>1
    <2>2. \A k \in Key : ViewOf(scopes', map', 0)[k] = ViewOf(scopes, map, 0)[k]  BY <1>5, <2>1
    <2>. QED  BY <2>2, ViewsEqual DEF Below
  <1>7. MapInv'  BY <1>3, <1>4, <1>6 DEF MapInv, EmptyBelow
  <1> DEFINE W(j) == IF j >= p THEN [Frames[j].view EXCEPT ![k0] = v] ELSE Frames[j].view
  <1>8. ASSUME NEW j \in 1..Top PROVE ViewOf(scopes', map', j) = W(j)
    <2> DEFINE f == ViewOf(scopes', map', j)
               g == ViewOf(scopes, map, j)
    <2>1. j \in 0..Top  BY <1>1
    <2>2. Frames[j].view = g  BY <1>1, FrameFacts DEF FrameOf
    <2>3. f = [k \in Key |-> f[k]] /\ g = [k \in Key |-> g[k]]  BY ViewFunction
    <2>4. \A k \in Key : f[k] = IF k = k0 /\ j >= p THEN v ELSE g[k]  BY <1>5, <2>1
    <2>. HIDE DEF f, g
    <2>5. f = IF j >= p THEN [g EXCEPT ![k0] = v] ELSE g  BY <2>3, <2>4
    <2>. QED  BY <2>2, <2>5 DEF f
  <1>9. /\ Reference!Depth = Top
        /\ Frames' = [j \in 1..Top |-> Reference!Numbered(j, p, k0, W(j))]
    <2> DEFINE F == [j \in 1..Top |-> W(j)]
    <2>1. \A j \in 1..Top : F[j] = W(j)  OBVIOUS
    <2>. HIDE DEF F, W
    <2>2. \A j \in 1..Top : ViewOf(scopes', map', j) = F[j]  BY <1>8, <2>1
    <2>3. /\ Reference!Depth = Top
          /\ Frames' = [j \in 1..Top |-> Reference!Numbered(j, p, k0, F[j])]
      BY <1>2, <2>2, EnterFrames
    <2>. QED  BY <2>1, <2>3
  <1>. QED  BY <1>4, <1>6, <1>7, <1>9 DEF Reference!Bind

(* A second insert of a key in the top scope. *)
LEMMA AgainStep ==
    ASSUME MapInv, NEW k0 \in Key, NEW v \in Val, Top > 0,
           Binds(Top, k0), Enter(Top, k0, v)
    PROVE  MapInv' /\ Reference!BindAgain(k0, v)
  <1>1. TypeOK /\ Top \in Nat /\ Top = Len(scopes) /\ Top \in 1..Top  BY ScopeTypes DEF MapInv, Top
  <1>2. \A i \in (Top + 1)..Top : ~Binds(i, k0)  BY <1>1
  <1>3. TypeOK' /\ ProtectedOnce' /\ PositionsDistinct' /\ Entered(scopes, map, scopes', map', Top, k0, v)
    BY <1>1, <1>2, EnterState
  <1>4. twice' = twice \cup {k0} /\ result' = "err"  BY DEF Enter
  <1>5. \A i \in 0..Top, k \in Key : k # k0 => ViewOf(scopes', map', i)[k] = ViewOf(scopes, map, i)[k]
    BY <1>1, <1>3, EnterOtherKeys
  <1>6. \A i \in 0..Top : ViewOf(scopes', map', i)[k0] =
          IF i = Top THEN v
          ELSE IF \E n \in (i + 1)..(Top - 1) : scopes[n].prev[k0] # Absent
          THEN ViewOf(scopes, map, i)[k0] ELSE map[k0]
    <2>. SUFFICES ASSUME NEW i \in 0..Top
                  PROVE  ViewOf(scopes', map', i)[k0] =
                           IF i = Top THEN v
                           ELSE IF \E n \in (i + 1)..(Top - 1) : scopes[n].prev[k0] # Absent
                           THEN ViewOf(scopes, map, i)[k0] ELSE map[k0]
      OBVIOUS
    <2>1. /\ Len(scopes) \in 1..Len(scopes) /\ i \in 0..Len(scopes)
          /\ Entered(scopes, map, scopes', map', Len(scopes), k0, v)
      BY <1>1, <1>3
    <2>2. ~TopIsNext(scopes, i, k0) <=> \E n \in (i + 1)..(Top - 1) : scopes[n].prev[k0] # Absent
      BY DEF Top, TopIsNext
    <2>3. CASE i = Top
      <3>1. \A j \in (i + 1)..Len(scopes') : scopes'[j].prev[k0] = Absent  BY <1>1, <1>3, <2>3 DEF Entered
      <3>2. map'[k0] = v  BY <1>3 DEF Entered
      <3>. QED  BY <2>3, <3>1, <3>2, ViewSeen
    <2>4. CASE i # Top
      <3>1. i # Len(scopes)  BY <1>1, <2>4
      <3>2. \A j \in 0..Len(scopes), k \in Key : j # Len(scopes) /\ k = k0 =>
              ViewOf(scopes', map', j)[k] = IF TopIsNext(scopes, j, k0) THEN map[k] ELSE ViewOf(scopes, map, j)[k]
        BY <2>1, AgainViews
      <3>. QED  BY <2>1, <2>2, <2>4, <3>1, <3>2
    <2>. QED  BY <2>3, <2>4
  <1>7. MapInv'
    <2>1. 0 \in 0..Top  BY <1>1
    <2>2. \A k \in Key : k \in twice' \/ Below'[k] = None
      BY <1>4, <1>5, <2>1 DEF MapInv, EmptyBelow, Below
    <2>. QED  BY <1>3, <2>2 DEF MapInv, EmptyBelow
  <1>8. /\ Reference!TopView = map /\ Len(Frames) = Top
        /\ \A j \in 1..Top : Frames[j].view = ViewOf(scopes, map, j)
        /\ \A j \in 1..Top : Reference!Bound(j) = {k \in Key : Binds(j, k)}
    BY <1>1, FrameFacts, TopViewIsMap DEF FrameOf
  <1>9. ASSUME NEW j \in 0..Top
        PROVE  ViewOf(scopes', map', j) =
                 IF j = Top THEN [ViewOf(scopes, map, j) EXCEPT ![k0] = v]
                 ELSE Reference!Leak(ViewOf(scopes, map, j), j, k0)
    <2> DEFINE f == ViewOf(scopes', map', j)
               g == ViewOf(scopes, map, j)
               c == \E n \in (j + 1)..(Top - 1) : scopes[n].prev[k0] # Absent
    <2>1. Reference!BoundAbove(j, Top - 1, k0) <=> c
      <3>1. \A n \in (j + 1)..(Top - 1) : n \in 1..Top  BY <1>1
      <3>. QED  BY <1>8, <3>1 DEF Reference!BoundAbove, Binds
    <2>2. Reference!Leak(g, j, k0) = IF c THEN g ELSE [g EXCEPT ![k0] = map[k0]]
      BY <1>8, <2>1 DEF Reference!Leak, Reference!Depth
    <2>3. f = [k \in Key |-> f[k]] /\ g = [k \in Key |-> g[k]]  BY ViewFunction
    <2>4. /\ \A k \in Key : k # k0 => f[k] = g[k]
          /\ f[k0] = IF j = Top THEN v ELSE IF c THEN g[k0] ELSE map[k0]
      BY <1>5, <1>6
    <2>. HIDE DEF f, g, c
    <2>5. f = IF j = Top THEN [g EXCEPT ![k0] = v] ELSE IF c THEN g ELSE [g EXCEPT ![k0] = map[k0]]
      <3>1. CASE j = Top  BY <2>3, <2>4, <3>1
      <3>2. CASE j # Top /\ c
        <4>1. \A k \in Key : f[k] = g[k]  BY <2>4, <3>2
        <4>. QED  BY <2>3, <3>2, <4>1
      <3>3. CASE j # Top /\ ~c  BY <2>3, <2>4, <3>3
      <3>. QED  BY <3>1, <3>2, <3>3
    <2>6. f = IF j = Top THEN [g EXCEPT ![k0] = v] ELSE Reference!Leak(g, j, k0)  BY <2>2, <2>5
    <2>. QED  BY <2>6 DEF f, g
  <1>10. Below' = Reference!Leak(Below, 0, k0)
    <2>1. 0 \in 0..Top /\ 0 # Top  BY <1>1
    <2>. QED  BY <1>9, <2>1 DEF Below
  <1> DEFINE W(j) == IF j = Top THEN [Frames[j].view EXCEPT ![k0] = v]
                     ELSE Reference!Leak(Frames[j].view, j, k0)
  <1>11. ASSUME NEW j \in 1..Top PROVE ViewOf(scopes', map', j) = W(j)
    <2>1. j \in 0..Top  BY <1>1
    <2>. QED  BY <1>8, <1>9, <2>1
  <1>12. /\ Reference!Depth = Top
         /\ Frames' = [j \in 1..Top |-> Reference!Numbered(j, Top, k0, W(j))]
    <2> DEFINE F == [j \in 1..Top |-> W(j)]
    <2>1. \A j \in 1..Top : F[j] = W(j)  OBVIOUS
    <2>. HIDE DEF F, W
    <2>2. \A j \in 1..Top : ViewOf(scopes', map', j) = F[j]  BY <1>11, <2>1
    <2>3. /\ Reference!Depth = Top
          /\ Frames' = [j \in 1..Top |-> Reference!Numbered(j, Top, k0, F[j])]
      BY <1>1, <1>2, <2>2, EnterFrames
    <2>. QED  BY <2>1, <2>3
  <1>. QED  BY <1>4, <1>7, <1>10, <1>12 DEF Reference!BindAgain

(* An insert or a replace that is refused changes the answer only. *)
LEMMA RefuseStep ==
    ASSUME MapInv, UNCHANGED <<map, cannotShadow, scopes, twice>>, result' = "err"
    PROVE  MapInv' /\ Reference!Refuse
  <1>1. MapInv'
    BY DEF MapInv, TypeOK, ProtectedOnce, PositionsDistinct, EmptyBelow, Below, Binds, Top
  <1>2. Frames' = Frames /\ Below' = Below  BY DEF Frames, FrameOf, Below, Top
  <1>. QED  BY <1>1, <1>2 DEF Reference!Refuse

LEMMA ReplaceStep ==
    ASSUME MapInv, NEW k0 \in Key, NEW v \in Val, Replace(k0, v), map[k0] # None
    PROVE  MapInv' /\ Reference!Rebind(k0, v)
  <1>1. TypeOK /\ Top \in Nat /\ scopes \in Seq(Scope) /\ map \in [Key -> Val \cup {None}]
    BY ScopeTypes DEF MapInv, TypeOK
  <1>2. /\ twice' = twice /\ result' = "ok"
        /\ scopes' = scopes /\ cannotShadow' = cannotShadow /\ Top' = Top
        /\ map' \in [Key -> Val \cup {None}] /\ \A k \in Key : map'[k] = IF k = k0 THEN v ELSE map[k]
    BY <1>1 DEF Replace, Top
  <1>3. ASSUME NEW i \in 0..Top, NEW k \in Key
        PROVE  ViewOf(scopes', map', i)[k] =
                 IF k = k0 /\ (\A j \in (i + 1)..Top : scopes[j].prev[k0] = Absent)
                 THEN v ELSE ViewOf(scopes, map, i)[k]
    <2>1. i \in 0..Len(scopes) /\ Top = Len(scopes)  BY DEF Top
    <2>2. CASE \E j \in (i + 1)..Len(scopes) : scopes[j].prev[k] # Absent
      <3>1. ViewOf(scopes, map', i)[k] = ViewOf(scopes, map, i)[k]  BY <1>1, <2>1, <2>2, ReplaceViews
      <3>. QED  BY <1>2, <2>1, <2>2, <3>1
    <2>3. CASE \A j \in (i + 1)..Len(scopes) : scopes[j].prev[k] = Absent
      <3>1. ViewOf(scopes, map', i)[k] = map'[k] /\ ViewOf(scopes, map, i)[k] = map[k]  BY <2>3, ViewSeen
      <3>. QED  BY <1>2, <2>1, <2>3, <3>1
    <2>. QED  BY <2>2, <2>3
  <1>4. MapInv'
    <2>1. TypeOK'  BY <1>1, <1>2 DEF TypeOK
    <2>2. ProtectedOnce' /\ PositionsDistinct'
      BY <1>2 DEF MapInv, ProtectedOnce, PositionsDistinct, Binds
    <2>3. EmptyBelow'
      <3>1. 0 \in 0..Top  BY <1>1
      <3>2. ASSUME NEW k \in Key, k \notin twice, Below[k] = None PROVE Below'[k] = None
        <4>1. CASE k = k0
          <5>1. ~(\A j \in (0 + 1)..Top : scopes[j].prev[k0] = Absent)
            <6>. SUFFICES ASSUME \A j \in (0 + 1)..Top : scopes[j].prev[k0] = Absent PROVE FALSE  OBVIOUS
            <6>1. \A j \in (0 + 1)..Len(scopes) : scopes[j].prev[k0] = Absent  BY DEF Top
            <6>2. Below[k0] = map[k0]  BY <6>1, ViewSeen DEF Below
            <6>. QED  BY <3>2, <4>1, <6>2
          <5>. QED  BY <1>3, <3>1, <3>2, <4>1, <5>1 DEF Below
        <4>2. CASE k # k0  BY <1>3, <3>1, <3>2, <4>2 DEF Below
        <4>. QED  BY <4>1, <4>2
      <3>. QED  BY <1>2, <3>2 DEF MapInv, EmptyBelow
    <2>. QED  BY <2>1, <2>2, <2>3 DEF MapInv
  <1>5. /\ Len(Frames) = Top /\ \A i \in 1..Top : Frames[i] = FrameOf(i)
        /\ \A i \in 1..Top : Reference!Bound(i) = {k \in Key : Binds(i, k)}
    BY <1>1, FrameFacts
  <1>6. ASSUME NEW j \in 0..Top
        PROVE  ViewOf(scopes', map', j) = Reference!Rebound(ViewOf(scopes, map, j), j, k0, v)
    <2> DEFINE f == ViewOf(scopes', map', j)
               g == ViewOf(scopes, map, j)
               c == \A i \in (j + 1)..Top : scopes[i].prev[k0] = Absent
    <2>1. Reference!BoundAbove(j, Top, k0) <=> ~c
      <3>1. \A i \in (j + 1)..Top : i \in 1..Top  BY <1>1
      <3>. QED  BY <1>5, <3>1 DEF Reference!BoundAbove, Binds
    <2>2. Reference!Rebound(g, j, k0, v) = IF c THEN [g EXCEPT ![k0] = v] ELSE g
      BY <1>5, <2>1 DEF Reference!Rebound, Reference!Depth
    <2>3. f = [k \in Key |-> f[k]] /\ g = [k \in Key |-> g[k]]  BY ViewFunction
    <2>4. \A k \in Key : f[k] = IF k = k0 /\ c THEN v ELSE g[k]  BY <1>3
    <2>. HIDE DEF f, g, c
    <2>5. CASE c
      <3>1. \A k \in Key : f[k] = IF k = k0 THEN v ELSE g[k]  BY <2>4, <2>5
      <3>2. f = [g EXCEPT ![k0] = v]  BY <2>3, <3>1
      <3>. QED  BY <2>2, <2>5, <3>2 DEF f, g
    <2>6. CASE ~c
      <3>1. \A k \in Key : f[k] = g[k]  BY <2>4, <2>6
      <3>2. f = g  BY <2>3, <3>1
      <3>. QED  BY <2>2, <2>6, <3>2 DEF f, g
    <2>. QED  BY <2>5, <2>6
  <1>7. ASSUME NEW j \in 1..Top
        PROVE  FrameOf(j)' = [Frames[j] EXCEPT !.view = Reference!Rebound(@, j, k0, v)]
    <2>1. j \in 0..Top  BY <1>1
    <2>2. FrameOf(j)' = [view |-> ViewOf(scopes', map', j), pos |-> PosOf(scopes[j]),
                         kind |-> scopes[j].kind, count |-> scopes[j].count]
      BY <1>2 DEF FrameOf
    <2>3. Frames[j] = [view |-> ViewOf(scopes, map, j), pos |-> PosOf(scopes[j]),
                       kind |-> scopes[j].kind, count |-> scopes[j].count]
      BY <1>5 DEF FrameOf
    <2>. QED  BY <1>6, <2>1, <2>2, <2>3
  <1>8. Below' = Reference!Rebound(Below, 0, k0, v)
    <2>1. 0 \in 0..Top  BY <1>1
    <2>. QED  BY <1>6, <2>1 DEF Below
  <1>9. Frames' = [j \in 1..Top |-> FrameOf(j)']  BY <1>2 DEF Frames
  <1>10. Frames' = [j \in 1..Top |-> [Frames[j] EXCEPT !.view = Reference!Rebound(@, j, k0, v)]]
    BY <1>7, <1>9
  <1>11. Reference!Rebind(k0, v)  BY <1>2, <1>5, <1>8, <1>10 DEF Reference!Rebind, Reference!Depth
  <1>. QED  BY <1>4, <1>11

-----------------------------------------------------------------------------
(* The theorems *)

LEMMA MapInit == Init => MapInv /\ Reference!ScopeInit
  <1>. SUFFICES ASSUME Init PROVE MapInv /\ Reference!ScopeInit  OBVIOUS
  <1>1. scopes = <<>> /\ scopes \in Seq(Scope) /\ Top = 0 /\ cannotShadow = {}
        /\ map = [k \in Key |-> None] /\ result = "ok"
    BY EmptySeq DEF Init, Top
  <1>2. TypeOK  BY <1>1 DEF TypeOK
  <1>3. ProtectedOnce /\ PositionsDistinct  BY <1>1 DEF ProtectedOnce, PositionsDistinct
  <1>4. Below = map
    <2>1. ViewOf(scopes, map, Len(scopes)) = map  BY <1>1, <1>2, ViewTop DEF TypeOK
    <2>. QED  BY <1>1, <2>1 DEF Below, Top
  <1>5. Frames = <<>>  BY <1>1, <1>2, FrameFacts
  <1>. QED  BY <1>1, <1>2, <1>3, <1>4, <1>5 DEF MapInv, EmptyBelow, Reference!ScopeInit

(* The reference's names for what an insert asks of the scopes. *)
LEMMA InsertStep ==
    ASSUME MapInv, NEW k \in Key, NEW v \in Val, Insert(k, v)
    PROVE  MapInv' /\ Reference!InsertFrame(k, v)
  <1>1. TypeOK /\ Top > 0 /\ Top \in Nat /\ Top \in 1..Top
    BY ScopeTypes DEF MapInv, Insert
  <1>2. /\ Reference!Depth = Top /\ Frames # <<>>
        /\ (k \in Reference!Bound(Top) <=> Binds(Top, k))
    BY <1>1, FrameFacts DEF Reference!Depth
  <1>3. Reference!Protected(k) <=> k \in cannotShadow  BY <1>1, ProtectedIsCannotShadow
  <1>4. CASE Refused(k)
    <2>1. MapInv' /\ Reference!Refuse /\ k \in cannotShadow  BY <1>4, RefuseStep DEF Refused
    <2>. QED  BY <1>2, <1>3, <2>1 DEF Reference!InsertFrame
  <1>5. CASE Enter(Top, k, v) /\ ~Binds(Top, k)
    <2>1. \A i \in Top..Top : ~Binds(i, k)
      <3>1. \A i \in Top..Top : i = Top  BY <1>1
      <3>. QED  BY <1>5, <3>1
    <2>2. MapInv' /\ Reference!Bind(Top, k, v)  BY <1>1, <1>5, <2>1, EnterStep
    <2>3. k \notin cannotShadow  BY <1>5 DEF Enter
    <2>. QED  BY <1>2, <1>3, <1>5, <2>2, <2>3 DEF Reference!InsertFrame
  <1>6. CASE Enter(Top, k, v) /\ Binds(Top, k)
    <2>1. MapInv' /\ Reference!BindAgain(k, v)  BY <1>1, <1>6, AgainStep
    <2>2. k \notin cannotShadow  BY <1>6 DEF Enter
    <2>. QED  BY <1>2, <1>3, <1>6, <2>1, <2>2 DEF Reference!InsertFrame
  <1>. QED  BY <1>4, <1>5, <1>6 DEF Insert

LEMMA MapStep == MapInv /\ [Next]_vars => MapInv' /\ [Reference!ScopeNext]_<<Below, Frames, result>>
  <1>. SUFFICES ASSUME MapInv, [Next]_vars PROVE MapInv' /\ [Reference!ScopeNext]_<<Below, Frames, result>>
    OBVIOUS
  <1>1. ASSUME NEW kind \in Kind, PushScope(kind)
        PROVE  MapInv' /\ [Reference!ScopeNext]_<<Below, Frames, result>>
    BY <1>1, PushStep DEF Reference!ScopeNext, Kind
  <1>2. CASE PopScope  BY <1>2, PopStep DEF Reference!ScopeNext
  <1>3. ASSUME NEW k \in Key, NEW v \in Val, Insert(k, v)
        PROVE  MapInv' /\ [Reference!ScopeNext]_<<Below, Frames, result>>
    <2>1. MapInv' /\ Reference!InsertFrame(k, v)  BY <1>3, InsertStep
    <2>. QED  BY <2>1 DEF Reference!ScopeNext
  <1>4. ASSUME NEW k \in Key, NEW v \in Val, NEW i \in 1..Top, InsertAt(i, k, v)
        PROVE  MapInv' /\ [Reference!ScopeNext]_<<Below, Frames, result>>
    <2>1. TypeOK /\ Top \in Nat /\ Enter(i, k, v) /\ \A j \in 1..Top : ~Binds(j, k)
      BY <1>4, ScopeTypes DEF MapInv, InsertAt
    <2>2. \A j \in i..Top : j \in 1..Top  BY <2>1
    <2>3. MapInv' /\ Reference!Bind(i, k, v)  BY <2>1, <2>2, EnterStep
    <2>4. Reference!Depth = Top /\ \A j \in 1..Top : k \notin Reference!Bound(j)
      BY <2>1, FrameFacts DEF Reference!Depth
    <2>5. Reference!InsertFrameAt(i, k, v)  BY <2>3, <2>4 DEF Reference!InsertFrameAt
    <2>. QED  BY <2>3, <2>4, <2>5 DEF Reference!ScopeNext
  <1>5. ASSUME NEW k \in Key, NEW v \in Val, Replace(k, v)
        PROVE  MapInv' /\ [Reference!ScopeNext]_<<Below, Frames, result>>
    <2>1. Reference!TopView = map  BY TopViewIsMap
    <2>2. MapInv' /\ Reference!ReplaceFrame(k, v)
      <3>1. CASE map[k] # None
        <4>1. MapInv' /\ Reference!Rebind(k, v)  BY <1>5, <3>1, ReplaceStep
        <4>. QED  BY <2>1, <3>1, <4>1 DEF Reference!ReplaceFrame
      <3>2. CASE map[k] = None
        <4>1. MapInv' /\ Reference!Refuse  BY <1>5, <3>2, RefuseStep DEF Replace
        <4>. QED  BY <2>1, <3>2, <4>1 DEF Reference!ReplaceFrame
      <3>. QED  BY <3>1, <3>2
    <2>. QED  BY <2>2 DEF Reference!ScopeNext
  <1>6. CASE UNCHANGED vars
    <2>1. MapInv'
      BY <1>6 DEF vars, MapInv, TypeOK, ProtectedOnce, PositionsDistinct, EmptyBelow, Below, Binds, Top
    <2>2. Frames' = Frames /\ Below' = Below /\ result' = result
      BY <1>6 DEF vars, Frames, FrameOf, Below, Top
    <2>. QED  BY <2>1, <2>2
  <1>. QED  BY <1>1, <1>2, <1>3, <1>4, <1>5, <1>6 DEF Next

(* MapInv of the map of air/src/scope_map.rs: cannot_shadow holds exactly   *)
(* the keys of the scopes that forbid shadowing and no scope above one of   *)
(* them binds its keys, the positions of a scope's keys differ also after a *)
(* key was inserted twice, and popping every scope would leave no key in    *)
(* the map but those that were inserted twice in one scope.                 *)
THEOREM MapInvariant == Spec => []MapInv
  BY MapInit, MapStep, PTL DEF Spec

(* The flat map with its undo_maps implements the stack of scopes: every    *)
(* push, pop, insert, insert_at and replace of air/src/scope_map.rs answers *)
(* and leaves the views the stack says, for every set of keys and values    *)
(* and every depth, also when the caller discards the Err of a second       *)
(* insert and uses the map on.                                              *)
THEOREM MapImplementsScopeStack == Spec => ImplementsScopeStack
  BY MapInit, MapStep, PTL DEF Spec, ImplementsScopeStack, Reference!ScopeSpec
=============================================================================
