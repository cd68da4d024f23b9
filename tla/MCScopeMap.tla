----------------------------- MODULE MCScopeMap -----------------------------
(* A ScopeMap with few keys and values, enough for two scopes to bind one key and a third to lie between them. *)
EXTENDS ScopeMap, TLC

\* Keys are only compared with each other, and so are values.
Symmetric == Permutations(Key) \cup Permutations(Val)
=============================================================================
