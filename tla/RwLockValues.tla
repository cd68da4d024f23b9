---------------------------- MODULE RwLockValues ----------------------------
(* What the tokenized state machine of vstd/rwlock.rs and the running lock *)
(* have in common: the values, and the largest count.                      *)
EXTENDS Integers

CONSTANTS
    V,          \* the values the lock's predicate allows
    None,       \* no value: the cell is not initialised
    MaxRc       \* usize::MAX

ASSUME ValuesAssumption ==
    /\ None \notin V
    /\ MaxRc \in Nat \ {0}
=============================================================================
