----------------------------- MODULE AirContext -----------------------------
(***************************************************************************)
(* air/src/context.rs and air/src/smt_verify.rs: the context through which *)
(* the verifier asks an SMT solver whether a query is valid, and which of  *)
(* its assertions fails.                                                   *)
(*                                                                         *)
(* Every assertion of a query has a label; the solver gets the negated     *)
(* query, and is told (not label) for the assertions that are to be left   *)
(* out.  What the solver holds is an assertion stack, a sequence of        *)
(* scopes; what the context believes is in infos.  A query is given by its *)
(* cores, the sets of labels that suffice to refute it: the negated query  *)
(* is satisfiable exactly when some core is enabled as a whole.  The       *)
(* solver is sound but need not be complete, and its model may set labels  *)
(* that have nothing to do with the failure.                               *)
(***************************************************************************)
EXTENDS Integers, Sequences, FiniteSets

CONSTANTS
    NumLabels,      \* assertions in a query
    MaxDepth        \* bound: scopes the user of the context pushes

ASSUME AirAssumption ==
    /\ NumLabels \in Nat
    /\ MaxDepth \in Nat

VARIABLES
    mode,           \* "single" when single_check_query is set, else "many"
    state,          \* ContextState; "FoundNoModel" is FoundInvalid(_, None)
    infos,          \* the labels with info.disabled
    nameScopes,     \* scopes of the context's ScopeMaps
    stack,          \* the solver's scopes: labels negated, negated goals asserted
    cores,          \* the current query
    phase,          \* where the context is between two exchanges with the solver
    candidates,     \* enabled labels that are true in the solver's model
    pending,        \* candidates still to be confirmed
    certain,        \* "yes" while every answer was sat or unsat
    result,         \* the ValidityResult of the last check
    blamed          \* the label of that result, 0 for none

airVars == <<mode, state, infos, nameScopes, stack, cores, phase, candidates, pending, certain,
             result, blamed>>

Label == 1..NumLabels
Query == {q \in SUBSET ((SUBSET Label) \ {{}}) : \A a, b \in q : a \subseteq b => a = b}
\* A scope: the labels that are off, and the number of goals asserted.
Scope == [off : SUBSET Label, goals : Nat]
EmptyScope == [off |-> {}, goals |-> 0]

Top == Len(stack)
Negated == UNION {stack[i].off : i \in 1..Top}
Enabled == Label \ Negated

\* Nothing but the current query is asserted.
OneGoal == \A i \in 1..Top : stack[i].goals = (IF i = Top THEN 1 ELSE 0)
Failing(enabled) == \E core \in cores : core \subseteq enabled

Assert(off, goals) ==
    stack' = [stack EXCEPT ![Top] = [off |-> @.off \cup off, goals |-> @.goals + goals]]

-----------------------------------------------------------------------------
AirInit ==
    /\ mode = "many"
    /\ state = "NotStarted"
    /\ infos = {}
    /\ nameScopes = 1
    /\ stack = <<EmptyScope>>
    /\ cores = {}
    /\ phase = "idle"
    /\ candidates = {}
    /\ pending = {}
    /\ certain = "yes"
    /\ result = "none"
    /\ blamed = 0

\* ensure_started panics in every other state: a query is open or was the only one.
Started == state \in {"NotStarted", "ReadyForQuery"}

\* Before the only query of a bit-vector context.
SetSingleCheckQuery ==
    /\ phase = "idle"
    /\ Started
    /\ mode' = "single"
    /\ UNCHANGED <<state, infos, nameScopes, stack, cores, phase, candidates, pending, certain,
                   result, blamed>>

\* Declarations and axioms: the context starts and stays ready.
Global ==
    /\ phase = "idle"
    /\ Started
    /\ state' = "ReadyForQuery"
    /\ UNCHANGED <<mode, infos, nameScopes, stack, cores, phase, candidates, pending, certain,
                   result, blamed>>

Push ==
    /\ phase = "idle"
    /\ Started
    /\ Top <= MaxDepth
    /\ state' = "ReadyForQuery"
    /\ stack' = Append(stack, EmptyScope)
    /\ nameScopes' = nameScopes + 1
    /\ UNCHANGED <<mode, infos, cores, phase, candidates, pending, certain, result, blamed>>

\* pop does not look at the state; it is called between queries only.
Pop ==
    /\ phase = "idle"
    /\ Started
    /\ Top > 1
    /\ stack' = SubSeq(stack, 1, Top - 1)
    /\ nameScopes' = nameScopes - 1
    /\ UNCHANGED <<mode, state, infos, cores, phase, candidates, pending, certain, result, blamed>>

\* check_valid up to its first check-sat: type check, lower, push, declare the
\* labels and assert the negated query.
CheckValid(query) ==
    /\ phase = "idle"
    /\ Started
    /\ state' = "ReadyForQuery"
    /\ cores' = query
    /\ infos' = {}
    /\ \/ /\ mode = "many"
          /\ stack' = Append(stack, [off |-> {}, goals |-> 1])
          /\ nameScopes' = nameScopes + 1
       \/ /\ mode = "single"
          /\ Assert({}, 1)
          /\ UNCHANGED nameScopes
    /\ phase' = "check"
    /\ certain' = "yes"
    /\ result' = "none"
    /\ blamed' = 0
    /\ UNCHANGED <<mode, candidates, pending>>

\* Mutant: the labels before an error go off, not those after it.
LaterLabelsBefore == {l \in Label \ infos : \E d \in infos : l < d}

\* The enabled labels after the first one that is disabled.
LaterLabels == {l \in Label \ infos : \E d \in infos : d < l}

Checking(off) ==
    /\ infos' = infos \cup off
    /\ Assert(off, 0)
    /\ phase' = "check"
    /\ certain' = "yes"
    /\ result' = "none"
    /\ blamed' = 0
    /\ UNCHANGED <<mode, state, nameScopes, cores, candidates, pending>>

\* smt_check_assertion up to its check-sat.  With only_check_earlier it answers
\* Valid at once, the state unchanged, when no label is left before the errors.
CheckValidAgain(earlier) ==
    /\ state = "FoundInvalid"
    /\ phase = "idle"
    /\ \/ earlier = "no" /\ Checking({})
       \/ /\ earlier = "yes"
          /\ infos \cup LaterLabels # Label
          /\ Checking(LaterLabels)
       \/ /\ earlier = "yes"
          /\ infos \cup LaterLabels = Label
          /\ result' = "Valid"
          /\ UNCHANGED <<mode, state, infos, nameScopes, stack, cores, phase, candidates, pending,
                         certain, blamed>>

-----------------------------------------------------------------------------
(* The answers to check-sat.                                               *)

\* The solver: unsat is never the answer to a satisfiable query.
CanRefute(enabled) == ~(OneGoal /\ Failing(enabled))

Answer(newState, answer) ==
    /\ phase = "check"
    /\ state' = newState
    /\ result' = answer
    /\ phase' = "idle"
    /\ UNCHANGED <<mode, infos, nameScopes, stack, cores, candidates, pending, certain, blamed>>

AnswerUnsat == CanRefute(Enabled) /\ Answer("FoundResult", "Valid")

\* unknown, with a reason that means the resource limit was hit.
AnswerCanceled == Answer("Canceled", "Canceled")

\* A line that is no answer: the caller of the context panics.
AnswerUnexpected == Answer(state, "UnexpectedOutput")

\* sat, or unknown because the solver is incomplete, and no label to blame: the
\* only query of its context, no model, or a model in which no label is true.
AnswerNoModel == Answer("FoundNoModel", "Nowhere")

\* sat, or unknown because the solver is incomplete, with a model in which the
\* labels of trues are true.
AnswerModel(trues, sure) ==
    /\ phase = "check"
    /\ mode = "many"
    /\ trues \subseteq Enabled
    /\ sure = "yes" => Failing(trues)
    /\ trues \ infos # {}
    /\ candidates' = trues \ infos
    /\ pending' = trues \ infos
    /\ certain' = sure
    /\ phase' = IF Cardinality(trues \ infos) > 1 THEN "confirm" ELSE "choose"
    /\ UNCHANGED <<mode, state, infos, nameScopes, stack, cores, result, blamed>>

-----------------------------------------------------------------------------
(* Which of the candidates to blame.                                       *)

First(labels, i) == i \in labels /\ \A j \in labels : i <= j

\* Mutant: the other candidates stay on while one of them is confirmed.
IsolatedWithOthers(i) == Enabled

\* The labels that are on in the scope of confirm_label.
Isolated(i) == Enabled \ {j \in Label \ infos : j # i}

\* confirm_label: unsat for the query with the other labels off.
ConfirmRefuted(i) ==
    /\ phase = "confirm"
    /\ First(pending, i)
    /\ CanRefute(Isolated(i))
    /\ pending' = pending \ {i}
    /\ phase' = IF pending = {i} THEN "choose" ELSE "confirm"
    /\ UNCHANGED <<mode, state, infos, nameScopes, stack, cores, candidates, certain, result, blamed>>

\* confirm_label: any other answer counts as a confirmation.
Confirmed(i, sure) ==
    /\ phase = "confirm"
    /\ First(pending, i)
    /\ sure = "yes" => Failing(Isolated(i))
    /\ certain' = IF sure = "yes" THEN certain ELSE "no"
    /\ phase' = "choose"
    /\ UNCHANGED <<mode, state, infos, nameScopes, stack, cores, candidates, pending, result, blamed>>

\* The first confirmed candidate, or the first of all when none was confirmed.
Chosen(i) == First(IF pending = {} THEN candidates ELSE pending, i)

\* restore_model_for_observer may leave a scope open for the observer.
RestoreModel(i) ==
    /\ phase = "choose"
    /\ Cardinality(candidates) > 1
    /\ Chosen(i)
    /\ Failing(Isolated(i))
    /\ stack' = Append(stack, [off |-> {j \in Label \ infos : j # i}, goals |-> 0])
    /\ phase' = "observe"
    /\ UNCHANGED <<mode, state, infos, nameScopes, cores, candidates, pending, certain, result, blamed>>

WithLabelOff(scopes, i) ==
    [scopes EXCEPT ![Len(scopes)] = [off |-> @.off \cup {i}, goals |-> @.goals]]

\* The scope left open is popped first, then the label is disabled.
BlamedStack(i) ==
    WithLabelOff(IF phase = "observe" THEN SubSeq(stack, 1, Top - 1) ELSE stack, i)

\* The end of smt_get_model: the observer has run, the label goes off.
Blame(i) ==
    /\ phase \in {"choose", "observe"}
    /\ Chosen(i)
    /\ stack' = BlamedStack(i)
    /\ infos' = infos \cup {i}
    /\ state' = "FoundInvalid"
    /\ phase' = "idle"
    /\ result' = "Invalid"
    /\ blamed' = i
    /\ UNCHANGED <<mode, nameScopes, cores, candidates, pending, certain>>

\* Mutant: the scope of the query stays on the solver's stack.
FinishQueryKeepsScope ==
    /\ phase = "idle"
    /\ \/ mode = "single" /\ state' = "NoMoreQueriesAllowed" /\ UNCHANGED <<stack, nameScopes>>
       \/ /\ mode = "many"
          /\ state' = "ReadyForQuery"
          /\ nameScopes' = nameScopes - 1
          /\ UNCHANGED stack
    /\ result' = "none"
    /\ UNCHANGED <<mode, infos, cores, phase, candidates, pending, certain, blamed>>

FinishQuery ==
    /\ phase = "idle"
    /\ \/ mode = "single" /\ state' = "NoMoreQueriesAllowed" /\ UNCHANGED <<stack, nameScopes>>
       \/ /\ mode = "many"
          /\ state' = "ReadyForQuery"
          /\ nameScopes' = nameScopes - 1
          /\ stack' = SubSeq(stack, 1, Top - 1)
    /\ result' = "none"
    /\ UNCHANGED <<mode, infos, cores, phase, candidates, pending, certain, blamed>>

\* What the context and the solver do on their own between a check and its result.
Solve ==
    \/ AnswerUnsat \/ AnswerCanceled \/ AnswerUnexpected \/ AnswerNoModel
    \/ \E trues \in SUBSET Label, sure \in {"yes", "no"} : AnswerModel(trues, sure)
    \/ \E i \in Label :
          \/ ConfirmRefuted(i)
          \/ \E sure \in {"yes", "no"} : Confirmed(i, sure)
          \/ RestoreModel(i)
          \/ Blame(i)
=============================================================================
