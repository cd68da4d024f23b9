------------------------ MODULE ValidityLoopProofs --------------------------
(***************************************************************************)
(* Proofs about ValidityLoop: the verdicts, the blame and the scopes of a  *)
(* query are right for every number of assertions, every query, every      *)
(* value of --multiple-errors and every sequence of solver answers.        *)
(***************************************************************************)
EXTENDS ValidityLoop, FiniteSetTheorems, SequenceTheorems, TLAPS

-----------------------------------------------------------------------------
(* Sequences of scopes *)

(* A scope pushed on the solver's stack: what Append does to it. *)
LEMMA Pushed ==
    ASSUME NEW T, NEW s \in Seq(T), NEW e \in T
    PROVE  /\ Append(s, e) \in Seq(T)
           /\ Len(s) \in Nat /\ Len(Append(s, e)) = Len(s) + 1
           /\ \A i \in 1..Len(s) : Append(s, e)[i] = s[i]
           /\ Append(s, e)[Len(s) + 1] = e
  BY AppendProperties, LenProperties

(* A scope popped from the solver's stack. *)
LEMMA Popped ==
    ASSUME NEW T, NEW s \in Seq(T), Len(s) >= 1
    PROVE  /\ SubSeq(s, 1, Len(s) - 1) \in Seq(T)
           /\ Len(s) \in Nat /\ Len(SubSeq(s, 1, Len(s) - 1)) = Len(s) - 1
           /\ \A i \in 1 .. Len(s) - 1 : SubSeq(s, 1, Len(s) - 1)[i] = s[i]
  <1>1. Len(s) \in Nat  BY LenProperties
  <1> DEFINE n == Len(s) - 1
  <1>2. n \in Nat /\ \A i \in 1..n : s[i] \in T  BY <1>1, ElementOfSeq
  <1>. HIDE DEF n
  <1>3. /\ SubSeq(s, 1, n) \in Seq(T)
        /\ Len(SubSeq(s, 1, n)) = IF 1 <= n THEN n - 1 + 1 ELSE 0
        /\ \A i \in 1 .. n - 1 + 1 : SubSeq(s, 1, n)[i] = s[1 + i - 1]
    BY <1>2, SubSeqProperties
  <1>4. Len(SubSeq(s, 1, n)) = n /\ \A i \in 1..n : SubSeq(s, 1, n)[i] = s[i]  BY <1>2, <1>3
  <1>. QED  BY <1>1, <1>3, <1>4 DEF n

(* The top scope changed. *)
LEMMA Changed ==
    ASSUME NEW T, NEW s \in Seq(T), Len(s) >= 1, NEW e \in T
    PROVE  /\ [s EXCEPT ![Len(s)] = e] \in Seq(T)
           /\ Len(s) \in Nat /\ Len([s EXCEPT ![Len(s)] = e]) = Len(s)
           /\ \A i \in 1 .. Len(s) - 1 : [s EXCEPT ![Len(s)] = e][i] = s[i]
           /\ [s EXCEPT ![Len(s)] = e][Len(s)] = e
  <1>1. Len(s) \in Nat  BY LenProperties
  <1>. QED  BY <1>1, ExceptSeq

(* An error recorded: the set of the assertions reported grows by it. *)
LEMMA Recorded ==
    ASSUME NEW l \in Label, failed \in Seq(Label), failed' = Append(failed, l)
    PROVE  failed' \in Seq(Label) /\ FailedSet' = FailedSet \cup {l}
  <1>1. /\ failed' \in Seq(Label) /\ Len(failed) \in Nat /\ Len(failed') = Len(failed) + 1
        /\ \A i \in 1..Len(failed) : failed'[i] = failed[i]
        /\ failed'[Len(failed) + 1] = l
    BY Pushed
  <1>2. 1..Len(failed') = 1..Len(failed) \cup {Len(failed) + 1}  BY <1>1
  <1>. QED  BY <1>1, <1>2 DEF FailedSet

-----------------------------------------------------------------------------
(* What the solver is asked *)

(* In a check the solver holds the query, and the labels that are on are   *)
(* those the context believes to be on.                                    *)
LEMMA Asked ==
    ASSUME TypeOK, PhasesOK, StackOK, phase \in {"check", "confirm", "choose"}
    PROVE  OneGoal /\ Enabled = Label \ infos
  <1>1. /\ Top >= 1 /\ Top \in Nat
        /\ \A i \in 1 .. Top - 1 : stack[i] = EmptyScope
        /\ stack[Top] = [off |-> infos, goals |-> 1]
    <2>1. Top \in Nat  BY LenProperties DEF TypeOK, Top
    <2>. QED  BY <2>1 DEF PhasesOK, StackOK, QueryScope
  <1>2. OneGoal  BY <1>1 DEF OneGoal, EmptyScope
  <1>3. \A i \in 1..Top : stack[i].off = IF i = Top THEN infos ELSE {}
    BY <1>1 DEF EmptyScope
  <1>4. Negated = infos  BY <1>1, <1>3 DEF Negated
  <1>. QED  BY <1>2, <1>4 DEF Enabled

(* A candidate is confirmed with all other labels off. *)
LEMMA Alone ==
    ASSUME TypeOK, PhasesOK, StackOK, CandidatesOK, phase \in {"confirm", "choose"},
           NEW i \in candidates
    PROVE  Isolated(i) = {i}
  <1>1. Enabled = Label \ infos  BY Asked
  <1>2. i \in Label /\ i \notin infos  BY DEF TypeOK, CandidatesOK
  <1>3. i \in Enabled /\ \A j \in Enabled : j \in Label \ infos  BY <1>1, <1>2
  <1>. HIDE DEF Enabled, Label
  <1>. QED  BY <1>3 DEF Isolated

(* Failures have at least one assertion. *)
LEMMA CoresNonempty ==
    ASSUME cores \in Query
    PROVE  \A core \in cores : core \subseteq Label /\ core # {}
  <1>1. cores \in SUBSET ((SUBSET Label) \ {{}})  BY DEF Query
  <1>. QED  BY <1>1

LEMMA AloneFails ==
    ASSUME cores \in Query, NEW i
    PROVE  Failing({i}) <=> {i} \in cores
  <1>1. \A core \in cores : core \subseteq {i} => core = {i}  BY CoresNonempty
  <1>. QED  BY <1>1 DEF Failing

LEMMA OneCandidate ==
    ASSUME NEW S \in SUBSET Label, S # {}, ~(Cardinality(S) > 1)
    PROVE  \E x : S = {x}
  <1>1. IsFiniteSet(S)
    <2>1. IsFiniteSet(Label)  BY AirAssumption, FS_Interval DEF Label
    <2>. QED  BY <2>1, FS_Subset
  <1>2. Cardinality(S) \in Nat /\ Cardinality(S) # 0  BY <1>1, FS_CardinalityType, FS_EmptySet
  <1>3. Cardinality(S) = 1  BY <1>2
  <1>. QED  BY <1>1, <1>3, FS_Singleton

-----------------------------------------------------------------------------
(* Steps between queries *)

LEMMA InitHolds ==
    ASSUME Init
    PROVE  LoopInv
  <1>1. stack = <<EmptyScope>> /\ failed = <<>> /\ Top = 1 /\ pc = "idle" /\ phase = "idle"
    BY DEF Init, AirInit, Top
  <1>2. EmptyScope \in Scope  BY DEF EmptyScope, Scope
  <1>3. TypeOK
    <2>1. cores \in Query  BY DEF Init, AirInit, Query
    <2>2. stack \in Seq(Scope) /\ failed \in Seq(Label)
      <3>. HIDE DEF EmptyScope, Scope, Label
      <3>. QED  BY <1>1, <1>2
    <2>3. limit \in Int  BY LoopAssumption DEF Init
    <2>. QED  BY <1>1, <2>1, <2>2, <2>3 DEF Init, AirInit, TypeOK
  <1>4. ScopesRestored  BY <1>1 DEF Init, AirInit, ScopesRestored
  <1>5. StackOK /\ PhasesOK /\ OffExplained /\ ValidExplained /\ CandidatesOK
    BY <1>1 DEF StackOK, PhasesOK, OffExplained, ValidExplained, CandidatesOK
  <1>6. CountsOK /\ BlameJustified /\ VerdictSound
    BY DEF Init, AirInit, CountsOK, BlameJustified, VerdictSound
  <1>. QED  BY <1>3, <1>4, <1>5, <1>6 DEF LoopInv

(* Declarations, push and pop of the user, which come between queries only. *)
LEMMA DeclareKeeps ==
    ASSUME LoopInv, Declare
    PROVE  LoopInv'
  <1>1. /\ pc = "idle" /\ phase = "idle" /\ Started
        /\ UNCHANGED loopVars
        /\ UNCHANGED <<infos, cores, phase, candidates, pending, certain, result, blamed>>
    BY DEF Declare, Global, Push, Pop, SetSingleCheckQuery
  <1>2. UNCHANGED <<pc, level, first, remaining, earlier, invalidity, failed, verdict,
                    verified, errors, errorQueries, limit>>
    BY <1>1 DEF loopVars
  <1>3. /\ TypeOK /\ nameScopes = Top /\ Top >= 1 /\ Top \in Nat
        /\ \A i \in 1..Top : stack[i] = EmptyScope
    <2>1. Top \in Nat  BY LenProperties DEF LoopInv, TypeOK, Top
    <2>. QED  BY <1>1, <2>1 DEF LoopInv, Started, ScopesRestored, StackOK
  <1>4. EmptyScope \in Scope  BY DEF EmptyScope, Scope
  <1>5. /\ mode' \in {"many", "single"} /\ stack' \in Seq(Scope) /\ nameScopes' \in Int
        /\ nameScopes' = Top' /\ Top' >= 1
        /\ \A i \in 1..Top' : stack'[i] = EmptyScope
    <2>1. CASE Global \/ SetSingleCheckQuery
      BY <1>3, <2>1 DEF Global, SetSingleCheckQuery, TypeOK, Top
    <2>2. CASE Push
      <3>1. stack' = Append(stack, EmptyScope) /\ stack \in Seq(Scope)
            /\ nameScopes' = nameScopes + 1 /\ UNCHANGED mode
        BY <1>3, <2>2 DEF Push, TypeOK
      <3>2. /\ stack' \in Seq(Scope) /\ Top' = Top + 1
            /\ \A i \in 1..Top : stack'[i] = stack[i]
            /\ stack'[Top + 1] = EmptyScope
        BY <1>4, <3>1, Pushed DEF Top
      <3>3. \A i \in 1..Top' : i \in 1..Top \/ i = Top + 1  BY <1>3, <3>2
      <3>4. \A i \in 1..Top' : stack'[i] = EmptyScope  BY <1>3, <3>2, <3>3
      <3>5. nameScopes' = Top' /\ Top' >= 1 /\ nameScopes' \in Int  BY <1>3, <3>1, <3>2
      <3>6. mode' \in {"many", "single"}  BY <1>3, <3>1 DEF TypeOK
      <3>. QED  BY <3>2, <3>4, <3>5, <3>6
    <2>3. CASE Pop
      <3>1. stack' = SubSeq(stack, 1, Top - 1) /\ stack \in Seq(Scope) /\ Top > 1
            /\ nameScopes' = nameScopes - 1 /\ UNCHANGED mode
        BY <1>3, <2>3 DEF Pop, TypeOK
      <3>2. /\ stack' \in Seq(Scope) /\ Top' = Top - 1
            /\ \A i \in 1 .. Top - 1 : stack'[i] = stack[i]
        BY <1>3, <3>1, Popped DEF Top
      <3>. QED  BY <1>3, <3>1, <3>2 DEF TypeOK
    <2>. QED  BY <2>1, <2>2, <2>3 DEF Declare
  <1>6. TypeOK'  BY <1>1, <1>2, <1>3, <1>5 DEF TypeOK
  <1>7. PhasesOK' /\ StackOK' /\ OffExplained' /\ ValidExplained' /\ CandidatesOK' /\ CountsOK'
    BY <1>1, <1>2, <1>5
    DEF PhasesOK, StackOK, OffExplained, ValidExplained, CandidatesOK, CountsOK
  <1>8. ScopesRestored'  BY <1>5 DEF ScopesRestored
  <1>9. BlameJustified' /\ VerdictSound'
    BY <1>1, <1>2 DEF LoopInv, BlameJustified, VerdictSound
  <1>. QED  BY <1>6, <1>7, <1>8, <1>9 DEF LoopInv

(* A query begins: in a scope of its own, or in the scope of a context that *)
(* serves only this one.                                                    *)
LEMMA StartKeeps ==
    ASSUME LoopInv, NEW lev \in Level, NEW query \in Query, StartQuery(lev, query)
    PROVE  LoopInv'
  <1>1. /\ pc = "idle" /\ Started /\ pc' = "loop" /\ phase' = "check" /\ result' = "none"
        /\ cores' = query /\ infos' = {} /\ failed' = <<>> /\ first' = "yes"
        /\ earlier' = "no" /\ verdict' = "none" /\ invalidity' = "no" /\ level' = lev
        /\ remaining' = limit
        /\ UNCHANGED <<mode, candidates, pending, verified, errors, limit>>
        /\ errorQueries' = IF lev = "error" THEN errorQueries + 1 ELSE errorQueries
    BY DEF StartQuery, CheckValid
  <1>2. /\ TypeOK /\ nameScopes = Top /\ Top >= 1 /\ Top \in Nat /\ stack \in Seq(Scope)
        /\ \A i \in 1..Top : stack[i] = EmptyScope
    <2>1. Top \in Nat  BY LenProperties DEF LoopInv, TypeOK, Top
    <2>. QED  BY <1>1, <2>1 DEF LoopInv, Started, ScopesRestored, StackOK, TypeOK
  <1> DEFINE goal == [off |-> {}, goals |-> 1]
  <1>3. goal \in Scope  BY DEF Scope
  <1>4. /\ stack' \in Seq(Scope) /\ Top' >= 1 /\ nameScopes' \in Int
        /\ \A i \in 1 .. Top' - 1 : stack'[i] = EmptyScope
        /\ stack'[Top'] = goal
        /\ mode = "many" => nameScopes' = Top' /\ Top' >= 2
    <2>1. CASE mode = "many"
      <3>1. stack' = Append(stack, goal) /\ nameScopes' = nameScopes + 1
        BY <2>1 DEF StartQuery, CheckValid
      <3>. HIDE DEF goal
      <3>2. /\ stack' \in Seq(Scope) /\ Top' = Top + 1
            /\ \A i \in 1..Top : stack'[i] = stack[i]
            /\ stack'[Top + 1] = goal
        BY <1>2, <1>3, <3>1, Pushed DEF Top
      <3>3. \A i \in 1 .. Top' - 1 : i \in 1..Top  BY <1>2, <3>2
      <3>4. \A i \in 1 .. Top' - 1 : stack'[i] = EmptyScope  BY <1>2, <3>2, <3>3
      <3>5. stack'[Top'] = goal  BY <3>2
      <3>6. nameScopes' = Top' /\ Top' >= 2 /\ nameScopes' \in Int  BY <1>2, <3>1, <3>2
      <3>. QED  BY <3>2, <3>4, <3>5, <3>6
    <2>2. CASE mode = "single"
      <3>1. stack' = [stack EXCEPT ![Top] = goal] /\ nameScopes' = nameScopes
        BY <1>2, <2>2 DEF StartQuery, CheckValid, Assert, EmptyScope
      <3>. HIDE DEF goal
      <3>2. /\ stack' \in Seq(Scope) /\ Top' = Top
            /\ \A i \in 1 .. Top - 1 : stack'[i] = stack[i]
            /\ stack'[Top] = goal
        BY <1>2, <1>3, <3>1, Changed DEF Top
      <3>. QED  BY <1>2, <2>2, <3>1, <3>2
    <2>. QED  BY <1>2, <2>1, <2>2 DEF TypeOK
  <1>5. TypeOK'
    <2>1. limit \in Int  BY DEF LoopInv, TypeOK
    <2>. QED  BY <1>1, <1>2, <1>4, <2>1 DEF TypeOK
  <1>6. StackOK'  BY <1>1, <1>4 DEF StackOK, QueryScope
  <1>7. PhasesOK' /\ ValidExplained' /\ CandidatesOK' /\ ScopesRestored' /\ BlameJustified'
    BY <1>1 DEF PhasesOK, ValidExplained, CandidatesOK, ScopesRestored, BlameJustified
  <1>8. OffExplained'
    <2>1. FailedSet' = {}  BY <1>1 DEF FailedSet
    <2>. QED  BY <1>1, <2>1 DEF OffExplained
  <1>9. CountsOK' /\ VerdictSound'
    <2>1. verified + errors = errorQueries  BY <1>1 DEF LoopInv, VerdictSound
    <2>. QED  BY <1>1, <1>2, <2>1 DEF CountsOK, VerdictSound, TypeOK
  <1>. QED  BY <1>5, <1>6, <1>7, <1>8, <1>9 DEF LoopInv

-----------------------------------------------------------------------------
(* Answers of the solver.  None of them counts anything. *)

(* What a step of the context on its own leaves as it is. *)
LEMMA SolveFrame ==
    ASSUME LoopInv, SolverSteps, UNCHANGED cores
    PROVE  /\ pc = "loop" /\ UNCHANGED loopVars
           /\ UNCHANGED <<pc, level, first, remaining, earlier, invalidity, failed, verdict,
                          verified, errors, errorQueries, limit>>
           /\ FailedSet' = FailedSet /\ CountsOK' /\ VerdictSound' /\ ScopesRestored'
  <1>1. pc = "loop" /\ UNCHANGED loopVars  BY DEF SolverSteps
  <1>2. UNCHANGED <<pc, level, first, remaining, earlier, invalidity, failed, verdict,
                    verified, errors, errorQueries, limit>>
    BY <1>1 DEF loopVars
  <1>. QED  BY <1>1, <1>2 DEF LoopInv, FailedSet, CountsOK, VerdictSound, ScopesRestored

(* An answer that ends the check.  If it is unsat, every failure needs a   *)
(* label that is off.                                                      *)
LEMMA AnswerKeeps ==
    ASSUME LoopInv, SolverSteps, NEW newState, NEW answer, Answer(newState, answer),
           answer # "Invalid", answer = "Valid" => CanRefute(Enabled)
    PROVE  LoopInv'
  <1>1. /\ phase = "check" /\ phase' = "idle" /\ result' = answer
        /\ UNCHANGED <<mode, infos, nameScopes, stack, cores, candidates, pending, certain, blamed>>
    BY DEF Answer
  <1>2. /\ pc = "loop" /\ result = "none"
        /\ UNCHANGED <<pc, level, first, remaining, earlier, invalidity, failed, verdict,
                       verified, errors, errorQueries, limit>>
        /\ FailedSet' = FailedSet /\ CountsOK' /\ VerdictSound' /\ ScopesRestored'
    BY <1>1, SolveFrame DEF LoopInv, PhasesOK
  <1>3. TypeOK'  BY <1>1, <1>2 DEF LoopInv, TypeOK
  <1>4. PhasesOK' /\ CandidatesOK' /\ BlameJustified'
    BY <1>1 DEF PhasesOK, CandidatesOK, BlameJustified
  <1>5. StackOK'
    <2>1. QueryScope' = QueryScope  BY <1>1 DEF QueryScope, Top
    <2>. QED  BY <1>1, <1>2, <2>1 DEF LoopInv, StackOK, Top
  <1>6. OffExplained'
    <2>1. Reported' = Reported  BY <1>1, <1>2 DEF Reported
    <2>. QED  BY <1>1, <1>2, <2>1 DEF LoopInv, OffExplained
  <1>7. ValidExplained'
    <2>. SUFFICES ASSUME answer = "Valid", NEW core \in cores
                  PROVE  \E l \in core : l \in infos
      BY <1>1 DEF ValidExplained
    <2>1. OneGoal /\ Enabled = Label \ infos  BY <1>1, Asked DEF LoopInv
    <2>2. ~(core \subseteq Label \ infos)  BY <2>1 DEF CanRefute, Failing
    <2>3. core \subseteq Label  BY DEF LoopInv, TypeOK, Query
    <2>. QED  BY <2>2, <2>3
  <1>. QED  BY <1>2, <1>3, <1>4, <1>5, <1>6, <1>7 DEF LoopInv

(* A step that leaves the check open: what is known of the query stays. *)
LEMMA OpenFrame ==
    ASSUME LoopInv, SolverSteps, phase # "idle", phase' # "idle",
           UNCHANGED <<mode, state, infos, nameScopes, cores, result, blamed>>
    PROVE  /\ pc = "loop" /\ PhasesOK' /\ OffExplained' /\ ValidExplained' /\ BlameJustified'
           /\ CountsOK' /\ VerdictSound' /\ ScopesRestored'
           /\ stack' \in Seq(Scope) /\ candidates' \subseteq Label /\ pending' \subseteq candidates'
                 => TypeOK'
           /\ UNCHANGED stack /\ phase # "observe" /\ phase' # "observe" => StackOK'
  <1>1. /\ pc = "loop" /\ result = "none" /\ result' = "none"
        /\ UNCHANGED <<pc, level, first, remaining, earlier, invalidity, failed, verdict,
                       verified, errors, errorQueries, limit>>
        /\ FailedSet' = FailedSet /\ CountsOK' /\ VerdictSound' /\ ScopesRestored'
    BY SolveFrame DEF LoopInv, PhasesOK
  <1>2. PhasesOK' /\ ValidExplained' /\ BlameJustified'
    BY <1>1 DEF PhasesOK, ValidExplained, BlameJustified
  <1>3. OffExplained'
    <2>1. Reported' = Reported  BY <1>1 DEF Reported
    <2>. QED  BY <1>1, <2>1 DEF LoopInv, OffExplained
  <1>4. stack' \in Seq(Scope) /\ candidates' \subseteq Label /\ pending' \subseteq candidates'
           => TypeOK'
    BY <1>1 DEF LoopInv, TypeOK
  <1>5. UNCHANGED stack /\ phase # "observe" /\ phase' # "observe" => StackOK'
    BY <1>1 DEF LoopInv, StackOK, QueryScope, Top
  <1>. QED  BY <1>1, <1>2, <1>3, <1>4, <1>5

(* A model: the enabled labels that are true in it are the candidates.     *)
LEMMA ModelKeeps ==
    ASSUME LoopInv, SolverSteps, NEW trues \in SUBSET Label, NEW sure, AnswerModel(trues, sure)
    PROVE  LoopInv'
  <1> DEFINE C == trues \ infos
  <1>1. /\ phase = "check" /\ C # {} /\ candidates' = C /\ pending' = C
        /\ certain' = sure /\ (sure = "yes" => Failing(trues)) /\ trues \subseteq Enabled
        /\ phase' = IF Cardinality(C) > 1 THEN "confirm" ELSE "choose"
        /\ UNCHANGED <<mode, state, infos, nameScopes, stack, cores, result, blamed>>
    BY DEF AnswerModel
  <1>2. /\ PhasesOK' /\ OffExplained' /\ ValidExplained' /\ BlameJustified'
        /\ CountsOK' /\ VerdictSound' /\ ScopesRestored' /\ TypeOK' /\ StackOK'
    <2>1. stack' \in Seq(Scope) /\ candidates' \subseteq Label /\ pending' \subseteq candidates'
      BY <1>1 DEF LoopInv, TypeOK
    <2>2. phase' # "idle" /\ phase' # "observe"  BY <1>1
    <2>. QED  BY <1>1, <2>1, <2>2, OpenFrame
  <1>3. trues = C
    <2>1. Enabled = Label \ infos  BY <1>1, Asked DEF LoopInv
    <2>. QED  BY <1>1, <2>1
  <1>4. CandidatesOK'
    <2>1. CASE Cardinality(C) > 1
      BY <1>1, <2>1 DEF CandidatesOK
    <2>2. CASE ~(Cardinality(C) > 1)
      <3>1. PICK x : C = {x}  BY <1>1, <2>2, OneCandidate
      <3>2. sure = "yes" => {x} \in cores  BY <1>1, <1>3, <3>1, AloneFails DEF LoopInv, TypeOK
      <3>3. \A i \in C : i = x  BY <3>1
      <3>. HIDE DEF C
      <3>4. phase' = "choose"  BY <1>1, <2>2
      <3>5. C \cap infos = {}  BY DEF C
      <3>6. \A i \in C : certain' = "yes" => {i} \in cores'  BY <1>1, <3>2, <3>3
      <3>. QED  BY <1>1, <3>4, <3>5, <3>6 DEF CandidatesOK
    <2>. QED  BY <2>1, <2>2
  <1>. QED  BY <1>2, <1>4 DEF LoopInv

(* A candidate that does not fail on its own. *)
LEMMA RefutedKeeps ==
    ASSUME LoopInv, SolverSteps, NEW i \in Label, ConfirmRefuted(i)
    PROVE  LoopInv'
  <1>1. /\ phase = "confirm" /\ i \in pending /\ CanRefute(Isolated(i))
        /\ pending' = pending \ {i}
        /\ phase' = IF pending = {i} THEN "choose" ELSE "confirm"
        /\ UNCHANGED <<mode, state, infos, nameScopes, stack, cores, candidates, certain, result, blamed>>
    BY DEF ConfirmRefuted, First
  <1>2. /\ i \in candidates /\ pending \subseteq candidates /\ candidates \subseteq Label
        /\ candidates # {} /\ candidates \cap infos = {} /\ Cardinality(candidates) > 1
        /\ \A j \in candidates \ pending : {j} \notin cores
    BY <1>1 DEF LoopInv, TypeOK, CandidatesOK
  <1>3. /\ PhasesOK' /\ OffExplained' /\ ValidExplained' /\ BlameJustified'
        /\ CountsOK' /\ VerdictSound' /\ ScopesRestored' /\ TypeOK' /\ StackOK'
    <2>1. stack' \in Seq(Scope) /\ candidates' \subseteq Label /\ pending' \subseteq candidates'
      BY <1>1, <1>2 DEF LoopInv, TypeOK
    <2>2. phase' # "idle" /\ phase' # "observe"  BY <1>1
    <2>. QED  BY <1>1, <2>1, <2>2, OpenFrame
  <1>4. {i} \notin cores
    <2>1. OneGoal /\ Isolated(i) = {i}  BY <1>1, <1>2, Asked, Alone DEF LoopInv
    <2>. QED  BY <1>1, <2>1, AloneFails DEF CanRefute, LoopInv, TypeOK
  <1>5. \A j \in candidates' \ pending' : {j} \notin cores'  BY <1>1, <1>2, <1>4
  <1>6. CandidatesOK'
    <2>1. CASE pending = {i}
      <3>1. phase' = "choose" /\ pending' = {}  BY <1>1, <2>1
      <3>. QED  BY <1>1, <1>2, <1>5, <3>1 DEF CandidatesOK
    <2>2. CASE pending # {i}
      <3>1. phase' = "confirm" /\ pending' # {}  BY <1>1, <2>2
      <3>. QED  BY <1>1, <1>2, <1>5, <3>1 DEF CandidatesOK
    <2>. QED  BY <2>1, <2>2
  <1>. QED  BY <1>3, <1>6 DEF LoopInv

(* A candidate that fails on its own, or may. *)
LEMMA ConfirmedKeeps ==
    ASSUME LoopInv, SolverSteps, NEW i \in Label, NEW sure, Confirmed(i, sure)
    PROVE  LoopInv'
  <1>1. /\ phase = "confirm" /\ First(pending, i) /\ i \in pending
        /\ (sure = "yes" => Failing(Isolated(i)))
        /\ certain' = (IF sure = "yes" THEN certain ELSE "no")
        /\ phase' = "choose"
        /\ UNCHANGED <<mode, state, infos, nameScopes, stack, cores, candidates, pending, result, blamed>>
    BY DEF Confirmed, First
  <1>2. /\ i \in candidates /\ pending \subseteq candidates /\ candidates \subseteq Label
        /\ candidates # {} /\ candidates \cap infos = {}
        /\ \A j \in candidates \ pending : {j} \notin cores
    BY <1>1 DEF LoopInv, TypeOK, CandidatesOK
  <1>3. /\ PhasesOK' /\ OffExplained' /\ ValidExplained' /\ BlameJustified'
        /\ CountsOK' /\ VerdictSound' /\ ScopesRestored' /\ TypeOK' /\ StackOK'
    BY <1>1, <1>2, OpenFrame DEF LoopInv, TypeOK
  <1>4. certain' = "yes" => {i} \in cores
    BY <1>1, <1>2, Alone, AloneFails DEF LoopInv, TypeOK
  <1>5. \A j \in pending : First(pending, j) => j = i
    <2>1. \A j \in pending : j \in Int  BY <1>2 DEF Label
    <2>. QED  BY <1>1, <2>1 DEF First
  <1>6. CandidatesOK'  BY <1>1, <1>2, <1>4, <1>5 DEF CandidatesOK, First
  <1>. QED  BY <1>3, <1>6 DEF LoopInv

(* The scope left open for the observer. *)
LEMMA RestoreKeeps ==
    ASSUME LoopInv, SolverSteps, NEW i \in Label, RestoreModel(i)
    PROVE  LoopInv'
  <1> DEFINE others == [off |-> {j \in Label \ infos : j # i}, goals |-> 0]
  <1>1. /\ phase = "choose" /\ phase' = "observe" /\ stack' = Append(stack, others)
        /\ UNCHANGED <<mode, state, infos, nameScopes, cores, candidates, pending, certain, result, blamed>>
    BY DEF RestoreModel
  <1>2. others \in Scope  BY DEF Scope
  <1>3. stack \in Seq(Scope)  BY DEF LoopInv, TypeOK
  <1>. HIDE DEF others
  <1>4. /\ stack' \in Seq(Scope) /\ Top \in Nat /\ Top' = Top + 1
        /\ \A j \in 1..Top : stack'[j] = stack[j]
    BY <1>1, <1>2, <1>3, Pushed DEF Top
  <1>5. /\ PhasesOK' /\ OffExplained' /\ ValidExplained' /\ BlameJustified' /\ pc = "loop"
        /\ CountsOK' /\ VerdictSound' /\ ScopesRestored' /\ TypeOK'
    BY <1>1, <1>4, OpenFrame DEF LoopInv, TypeOK
  <1>6. StackOK'
    <2>1. QueryScope = Top /\ QueryScope' = Top /\ pc' = "loop"
      BY <1>1, <1>4, SolveFrame DEF QueryScope
    <2>2. /\ Top >= 1 /\ \A j \in 1 .. Top - 1 : stack[j] = EmptyScope
          /\ stack[Top] = [off |-> infos, goals |-> 1]
          /\ mode = "many" => nameScopes = Top /\ Top >= 2
      BY <1>5, <2>1 DEF LoopInv, StackOK
    <2>3. /\ \A j \in 1 .. Top - 1 : stack'[j] = EmptyScope
          /\ stack'[Top] = [off |-> infos, goals |-> 1]
      <3>1. Top \in 1..Top /\ \A j \in 1 .. Top - 1 : j \in 1..Top  BY <1>4, <2>2
      <3>. QED  BY <1>4, <2>2, <3>1
    <2>. QED  BY <1>1, <2>1, <2>2, <2>3 DEF StackOK
  <1>7. CandidatesOK'  BY <1>1 DEF LoopInv, CandidatesOK, First
  <1>. QED  BY <1>5, <1>6, <1>7 DEF LoopInv

(* The blame: the scope of the observer is gone, the label goes off on both *)
(* sides, and the label is right if the answers were.                       *)
LEMMA BlameKeeps ==
    ASSUME LoopInv, SolverSteps, NEW i \in Label, Blame(i)
    PROVE  LoopInv'
  <1>1. /\ phase \in {"choose", "observe"} /\ Chosen(i) /\ stack' = BlamedStack(i)
        /\ infos' = infos \cup {i} /\ phase' = "idle" /\ result' = "Invalid" /\ blamed' = i
        /\ UNCHANGED <<mode, nameScopes, cores, candidates, pending, certain>>
    BY DEF Blame
  <1>2. /\ pc = "loop" /\ result = "none" /\ TypeOK
        /\ UNCHANGED <<pc, level, first, remaining, earlier, invalidity, failed, verdict,
                       verified, errors, errorQueries, limit>>
        /\ FailedSet' = FailedSet /\ CountsOK' /\ VerdictSound' /\ ScopesRestored'
    BY <1>1, SolveFrame DEF LoopInv, PhasesOK
  <1> DEFINE q == QueryScope
             s == IF phase = "observe" THEN SubSeq(stack, 1, Top - 1) ELSE stack
             e == [off |-> infos \cup {i}, goals |-> 1]
  <1>3. /\ q >= 1 /\ \A j \in 1 .. q - 1 : stack[j] = EmptyScope
        /\ stack[q] = [off |-> infos, goals |-> 1]
        /\ mode = "many" => nameScopes = q /\ q >= 2
    BY <1>2 DEF LoopInv, StackOK
  <1>4. Top \in Nat /\ stack \in Seq(Scope)  BY <1>2, LenProperties DEF Top, TypeOK
  <1>5. s \in Seq(Scope) /\ Len(s) = q /\ \A j \in 1..q : s[j] = stack[j]
    <2>1. CASE phase = "observe"
      <3>1. q = Top - 1 /\ s = SubSeq(stack, 1, Top - 1) /\ Len(stack) >= 1
        BY <1>3, <1>4, <2>1 DEF QueryScope, Top
      <3>. HIDE DEF s, q
      <3>. QED  BY <1>4, <3>1, Popped DEF Top
    <2>2. CASE phase # "observe"
      BY <1>4, <2>2 DEF QueryScope, Top
    <2>. QED  BY <2>1, <2>2
  <1>6. e \in Scope  BY <1>2 DEF Scope, TypeOK
  <1>7. stack' = [s EXCEPT ![q] = e]
    <2>1. s[q] = [off |-> infos, goals |-> 1]
      <3>1. q \in 1..q  BY <1>3, <1>4 DEF QueryScope
      <3>. QED  BY <1>3, <1>5, <3>1
    <2>2. stack' = [s EXCEPT ![q] = [off |-> s[q].off \cup {i}, goals |-> s[q].goals]]
      BY <1>1, <1>5 DEF BlamedStack, WithLabelOff
    <2>. HIDE DEF s, q
    <2>3. e = [off |-> s[q].off \cup {i}, goals |-> s[q].goals]  BY <2>1
    <2>. HIDE DEF e
    <2>. QED  BY <2>2, <2>3
  <1>. HIDE DEF s, e, q
  <1>8. /\ stack' \in Seq(Scope) /\ Top' = q /\ stack'[q] = e
        /\ \A j \in 1 .. q - 1 : stack'[j] = s[j]
    BY <1>3, <1>5, <1>6, <1>7, Changed DEF Top
  <1>9. StackOK'
    <2>1. QueryScope' = q  BY <1>1, <1>8 DEF QueryScope
    <2>2. \A j \in 1 .. q - 1 : stack'[j] = EmptyScope
      <3>1. q \in Int  BY <1>4 DEF q, QueryScope
      <3>2. \A j \in 1 .. q - 1 : j \in 1..q  BY <3>1
      <3>. QED  BY <1>3, <1>5, <1>8, <3>2
    <2>. QED  BY <1>1, <1>2, <1>3, <1>8, <2>1, <2>2 DEF StackOK, e
  <1>10. TypeOK'  BY <1>1, <1>2, <1>8 DEF TypeOK
  <1>11. PhasesOK' /\ CandidatesOK' /\ ValidExplained'
    BY <1>1 DEF PhasesOK, CandidatesOK, ValidExplained
  <1>12. OffExplained'
    <2>1. Reported = FailedSet /\ Reported' = FailedSet \cup {i}
      BY <1>1, <1>2 DEF Reported
    <2>2. i \in Int  BY DEF Label
    <2>. QED  BY <1>1, <1>2, <2>1, <2>2 DEF LoopInv, OffExplained
  <1>13. BlameJustified'
    <2>1. CASE pending = {}
      BY <1>1, <2>1 DEF LoopInv, CandidatesOK, BlameJustified
    <2>2. CASE pending # {}
      <3>1. i \in pending /\ First(pending, i)  BY <1>1, <2>2 DEF Chosen, First
      <3>. QED  BY <1>1, <3>1 DEF LoopInv, CandidatesOK, BlameJustified
    <2>. QED  BY <2>1, <2>2
  <1>. QED  BY <1>2, <1>9, <1>10, <1>11, <1>12, <1>13 DEF LoopInv

LEMMA SolverKeeps ==
    ASSUME LoopInv, SolverSteps
    PROVE  LoopInv'
  <1>1. Solve  BY DEF SolverSteps
  <1>2. CASE AnswerUnsat  BY <1>2, AnswerKeeps DEF AnswerUnsat
  <1>3. CASE AnswerCanceled \/ AnswerUnexpected \/ AnswerNoModel
    BY <1>3, AnswerKeeps DEF AnswerCanceled, AnswerUnexpected, AnswerNoModel
  <1>4. CASE \E trues \in SUBSET Label, sure \in {"yes", "no"} : AnswerModel(trues, sure)
    BY <1>4, ModelKeeps
  <1>5. CASE \E i \in Label : ConfirmRefuted(i)  BY <1>5, RefutedKeeps
  <1>6. CASE \E i \in Label, sure \in {"yes", "no"} : Confirmed(i, sure)  BY <1>6, ConfirmedKeeps
  <1>7. CASE \E i \in Label : RestoreModel(i) \/ Blame(i)  BY <1>7, RestoreKeeps, BlameKeeps
  <1>. QED  BY <1>1, <1>2, <1>3, <1>4, <1>5, <1>6, <1>7 DEF Solve

-----------------------------------------------------------------------------
(* The loop acts on a result *)

(* The loop is left without a word to the context. *)
LEMMA LeaveFrame ==
    ASSUME LoopInv, pc = "loop", phase = "idle", pc' = "end", UNCHANGED airVars,
           UNCHANGED <<level, remaining, earlier, errorQueries, limit>>, first' = first,
           verified' \in Nat, errors' \in Nat, failed' \in Seq(Label), Reported' = Reported
    PROVE  /\ TypeOK' /\ PhasesOK' /\ StackOK' /\ OffExplained' /\ ValidExplained' /\ CandidatesOK'
           /\ CountsOK' /\ ScopesRestored' /\ BlameJustified'
  <1>1. UNCHANGED <<mode, state, infos, nameScopes, stack, cores, phase, candidates, pending, certain,
                    result, blamed>>
    BY DEF airVars
  <1>2. TypeOK'  BY <1>1 DEF LoopInv, TypeOK
  <1>3. StackOK'
    <2>1. QueryScope' = QueryScope  BY <1>1 DEF QueryScope, Top
    <2>. QED  BY <1>1, <2>1 DEF LoopInv, StackOK
  <1>4. OffExplained'  BY <1>1 DEF LoopInv, OffExplained
  <1>5. ValidExplained'  BY <1>1 DEF LoopInv, ValidExplained, LaterLabels
  <1>6. PhasesOK' /\ CandidatesOK' /\ CountsOK' /\ ScopesRestored' /\ BlameJustified'
    BY <1>1 DEF LoopInv, PhasesOK, CandidatesOK, CountsOK, ScopesRestored, BlameJustified
  <1>. QED  BY <1>2, <1>3, <1>4, <1>5, <1>6

(* Valid.  On the first check nothing is off, so nothing can fail. *)
LEMMA ValidKeeps ==
    ASSUME LoopInv, OnValid
    PROVE  LoopInv'
  <1>1. /\ pc = "loop" /\ phase = "idle" /\ result = "Valid" /\ pc' = "end"
        /\ UNCHANGED airVars
        /\ UNCHANGED <<level, first, remaining, earlier, invalidity, failed, errors, errorQueries, limit>>
        /\ IF first = "yes" /\ level = "error"
           THEN verified' = verified + 1 /\ verdict' = "verified"
           ELSE UNCHANGED <<verified, verdict>>
    BY DEF OnValid, Returned
  <1>2. cores' = cores /\ result' = result  BY <1>1 DEF airVars
  <1>3. first = "yes" => cores = {}
    <2>. SUFFICES ASSUME first = "yes", NEW core \in cores PROVE FALSE  OBVIOUS
    <2>1. earlier = "no" /\ infos \subseteq Reported /\ FailedSet = {}
      BY <1>1 DEF LoopInv, OffExplained
    <2>2. infos = {}  BY <1>1, <2>1 DEF Reported
    <2>3. \E l \in core : l \in infos  BY <1>1, <2>1 DEF LoopInv, ValidExplained
    <2>. QED  BY <2>2, <2>3
  <1>4. Reported' = Reported  BY <1>1, <1>2 DEF Reported, FailedSet
  <1>5. verified \in Nat /\ errors \in Nat /\ errorQueries \in Nat /\ failed \in Seq(Label)
    BY DEF LoopInv, TypeOK
  <1>6. VerdictSound'
    <2>1. CASE first = "yes" /\ level = "error"
      BY <1>1, <1>2, <1>3, <1>5, <2>1 DEF LoopInv, CountsOK, VerdictSound
    <2>2. CASE ~(first = "yes" /\ level = "error")
      BY <1>1, <1>2, <1>5, <2>2 DEF LoopInv, CountsOK, VerdictSound
    <2>. QED  BY <2>1, <2>2
  <1>7. verified' \in Nat /\ errors' \in Nat /\ failed' \in Seq(Label)  BY <1>1, <1>5
  <1>. QED  BY <1>1, <1>4, <1>6, <1>7, LeaveFrame DEF LoopInv

(* What CountError does, whatever ends the query. *)
LEMMA Counted ==
    ASSUME LoopInv, pc = "loop", CountError, UNCHANGED <<cores, level, verified, errorQueries>>
    PROVE  /\ errors' \in Nat
           /\ verdict' = "verified" => cores' = {}
           /\ verified' + errors' = errorQueries'
           /\ level = "error" => verdict' = "failed" /\ invalidity' = "yes"
           /\ level # "error" => verdict' = "none"
  <1>1. verified \in Nat /\ errors \in Nat /\ errorQueries \in Nat  BY DEF LoopInv, TypeOK
  <1>2. CASE first = "yes" /\ level = "error"
    BY <1>1, <1>2 DEF LoopInv, CountsOK, CountError
  <1>3. CASE ~(first = "yes" /\ level = "error")
    BY <1>1, <1>3 DEF LoopInv, CountsOK, CountError
  <1>. QED  BY <1>2, <1>3

(* The query ends with an error. *)
LEMMA EndsInError ==
    ASSUME LoopInv, OnCanceled \/ OnNowhere \/ OnOnlyInvalid
    PROVE  LoopInv'
  <1>1. /\ pc = "loop" /\ phase = "idle" /\ pc' = "end" /\ CountError
        /\ UNCHANGED airVars
        /\ UNCHANGED <<level, first, remaining, earlier, verified, errorQueries, limit>>
    BY DEF OnCanceled, OnNowhere, OnOnlyInvalid, Returned
  <1>2. UNCHANGED <<cores, result, blamed>>  BY <1>1 DEF airVars
  <1>3. /\ errors' \in Nat
        /\ verdict' = "verified" => cores' = {}
        /\ verified' + errors' = errorQueries'
        /\ level = "error" => verdict' = "failed" /\ invalidity' = "yes"
        /\ level # "error" => verdict' = "none"
    BY <1>1, <1>2, Counted
  <1>4. VerdictSound'  BY <1>1, <1>3 DEF VerdictSound
  <1>5. failed' \in Seq(Label) /\ Reported' = Reported
    <2>1. CASE OnCanceled \/ OnNowhere
      <3>1. failed' = failed /\ result # "Invalid"  BY <2>1 DEF OnCanceled, OnNowhere, Returned
      <3>. QED  BY <1>1, <1>2, <3>1 DEF Reported, FailedSet, LoopInv, TypeOK
    <2>2. CASE OnOnlyInvalid
      <3>1. failed' = Append(failed, blamed) /\ result = "Invalid"
        BY <2>2 DEF OnOnlyInvalid, Returned
      <3>2. failed' \in Seq(Label) /\ FailedSet' = FailedSet \cup {blamed}
        BY <3>1, Recorded DEF LoopInv, TypeOK
      <3>. QED  BY <1>1, <1>2, <3>1, <3>2 DEF Reported
    <2>. QED  BY <2>1, <2>2
  <1>6. verified' \in Nat  BY <1>1 DEF LoopInv, TypeOK
  <1>. QED  BY <1>1, <1>3, <1>4, <1>5, <1>6, LeaveFrame DEF LoopInv

(* An error is recorded and the query checked again: with more labels off  *)
(* when only earlier errors matter, or not at all when none is left.       *)
LEMMA InvalidKeeps ==
    ASSUME LoopInv, OnInvalid
    PROVE  LoopInv'
  <1>1. /\ pc = "loop" /\ pc' = "loop" /\ phase = "idle" /\ result = "Invalid" /\ CountError
        /\ failed' = Append(failed, blamed) /\ first' = "no"
        /\ remaining' = NextRemaining /\ earlier' = NextEarlier
        /\ CheckValidAgain(NextEarlier)
        /\ UNCHANGED <<level, verified, errorQueries, limit>>
    BY DEF OnInvalid, Returned
  <1>2. /\ UNCHANGED <<mode, nameScopes, cores, candidates, pending>>
        /\ result' # "Invalid"
    BY <1>1 DEF CheckValidAgain, Checking
  <1>3. TypeOK /\ failed' \in Seq(Label) /\ Reported' = Reported
    <2>1. failed' \in Seq(Label) /\ FailedSet' = FailedSet \cup {blamed}
      BY <1>1, Recorded DEF LoopInv, TypeOK
    <2>. QED  BY <1>1, <1>2, <2>1 DEF LoopInv, Reported
  <1>4. /\ errors' \in Nat
        /\ verdict' = "verified" => cores' = {}
        /\ verified' + errors' = errorQueries'
        /\ level = "error" => verdict' = "failed" /\ invalidity' = "yes"
        /\ level # "error" => verdict' = "none"
    BY <1>1, <1>2, Counted
  <1>5. CountsOK' /\ VerdictSound'  BY <1>1, <1>4 DEF CountsOK, VerdictSound
  <1>6. /\ earlier' \in {"yes", "no"} /\ remaining' \in Int
        /\ earlier' = "yes" => remaining' = 0
        /\ earlier' = "no" => earlier = "no"
    BY <1>1, <1>3 DEF NextEarlier, NextRemaining, LoopInv, OffExplained, TypeOK
  <1>7. /\ \A l \in infos \cup LaterLabels : \E f \in Reported : f <= l
        /\ earlier = "no" => infos \subseteq Reported
    <2>1. /\ \A l \in infos : \E f \in Reported : f <= l
          /\ earlier = "no" => infos \subseteq Reported
      BY <1>1 DEF LoopInv, OffExplained
    <2>2. Reported \subseteq Int /\ infos \subseteq Int /\ LaterLabels \subseteq Int
      <3>1. FailedSet \subseteq Label  BY <1>3, ElementOfSeq DEF FailedSet, TypeOK
      <3>2. blamed \in Label  BY <1>1, <1>3 DEF TypeOK
      <3>3. Label \subseteq Int  BY DEF Label
      <3>. QED  BY <1>3, <3>1, <3>2, <3>3 DEF Reported, TypeOK, LaterLabels
    <2>3. ASSUME NEW l \in LaterLabels PROVE \E f \in Reported : f <= l
      <3>1. PICK d \in infos : d < l  BY DEF LaterLabels
      <3>2. PICK f \in Reported : f <= d  BY <2>1
      <3>3. f <= l  BY <2>2, <3>1, <3>2
      <3>. QED  BY <3>3
    <2>. QED  BY <2>1, <2>3
  <1>8. StackOK' /\ TypeOK' /\ PhasesOK' /\ CandidatesOK' /\ ValidExplained' /\ OffExplained'
    <2>1. /\ Top \in Nat /\ Top >= 1 /\ stack \in Seq(Scope) /\ QueryScope = Top
          /\ \A j \in 1 .. Top - 1 : stack[j] = EmptyScope
          /\ stack[Top] = [off |-> infos, goals |-> 1]
          /\ mode = "many" => nameScopes = Top /\ Top >= 2
      <3>1. QueryScope = Top  BY <1>1 DEF QueryScope
      <3>. QED  BY <1>1, <1>3, <3>1, LenProperties DEF LoopInv, StackOK, TypeOK, Top
    <2>2. ASSUME NEW off \in SUBSET LaterLabels, Checking(off), earlier' = "no" => off = {}
          PROVE  StackOK' /\ TypeOK' /\ PhasesOK' /\ CandidatesOK' /\ ValidExplained' /\ OffExplained'
      <3> DEFINE e == [off |-> infos \cup off, goals |-> 1]
      <3>1. infos' = infos \cup off /\ phase' = "check" /\ result' = "none" /\ Assert(off, 0)
        BY <2>2 DEF Checking
      <3>2. e \in Scope  BY <1>3 DEF Scope, TypeOK, LaterLabels
      <3>3. stack' = [stack EXCEPT ![Top] = e]
        <4>1. e = [off |-> stack[Top].off \cup off, goals |-> stack[Top].goals + 0]  BY <2>1
        <4>. HIDE DEF e
        <4>. QED  BY <3>1, <4>1 DEF Assert
      <3>. HIDE DEF e
      <3>4. /\ stack' \in Seq(Scope) /\ Top' = Top /\ stack'[Top] = e
            /\ \A j \in 1 .. Top - 1 : stack'[j] = stack[j]
        BY <2>1, <3>2, <3>3, Changed DEF Top
      <3>5. StackOK'
        <4>1. QueryScope' = Top  BY <3>1, <3>4 DEF QueryScope
        <4>. QED  BY <1>1, <1>2, <2>1, <3>1, <3>4, <4>1 DEF StackOK, e
      <3>6. infos' \subseteq Label  BY <1>3, <3>1 DEF TypeOK, LaterLabels
      <3>7. TypeOK'
        BY <1>1, <1>2, <1>3, <1>4, <1>6, <3>1, <3>4, <3>6 DEF TypeOK
      <3>8. PhasesOK' /\ CandidatesOK' /\ ValidExplained'
        BY <1>1, <3>1 DEF PhasesOK, CandidatesOK, ValidExplained
      <3>9. OffExplained'
        <4>1. \A l \in infos' : \E f \in Reported' : f <= l  BY <1>3, <1>7, <3>1
        <4>2. earlier' = "no" => infos' \subseteq Reported'  BY <1>3, <1>6, <1>7, <2>2, <3>1
        <4>. QED  BY <1>1, <1>6, <4>1, <4>2 DEF OffExplained
      <3>. QED  BY <3>5, <3>7, <3>8, <3>9
    <2>3. CASE earlier' = "no" /\ Checking({})  BY <2>2, <2>3
    <2>4. CASE earlier' = "yes" /\ Checking(LaterLabels)  BY <2>2, <2>4
    <2>5. CASE /\ earlier' = "yes" /\ infos \cup LaterLabels = Label /\ result' = "Valid"
               /\ UNCHANGED <<mode, state, infos, nameScopes, stack, cores, phase, candidates,
                              pending, certain, blamed>>
      <3>1. StackOK'
        <4>1. QueryScope' = Top /\ Top' = Top  BY <2>1, <2>5 DEF QueryScope, Top
        <4>. QED  BY <1>1, <2>1, <2>5, <4>1 DEF StackOK
      <3>2. TypeOK'  BY <1>1, <1>3, <1>4, <1>6, <2>5 DEF TypeOK
      <3>3. PhasesOK' /\ CandidatesOK'  BY <1>1, <2>5 DEF PhasesOK, CandidatesOK
      <3>4. OffExplained'  BY <1>1, <1>3, <1>6, <1>7, <2>5 DEF OffExplained
      <3>5. ValidExplained'
        <4>1. LaterLabels' = LaterLabels  BY <2>5 DEF LaterLabels
        <4>2. \A core \in cores : core \subseteq Label /\ core # {}  BY <1>3, CoresNonempty DEF TypeOK
        <4>3. \A core \in cores : \E l \in core : l \in infos \cup LaterLabels  BY <2>5, <4>2
        <4>. QED  BY <2>5, <4>1, <4>3 DEF ValidExplained
      <3>. QED  BY <3>1, <3>2, <3>3, <3>4, <3>5
    <2>. QED  BY <1>1, <2>3, <2>4, <2>5 DEF CheckValidAgain
  <1>9. ScopesRestored' /\ BlameJustified'  BY <1>1, <1>2 DEF ScopesRestored, BlameJustified
  <1>. QED  BY <1>5, <1>8, <1>9 DEF LoopInv

(* The output of the solver makes no sense. *)
LEMMA UnexpectedKeeps ==
    ASSUME LoopInv, OnUnexpected
    PROVE  LoopInv'
  <1>1. /\ pc = "loop" /\ phase = "idle" /\ pc' = "panic" /\ UNCHANGED airVars
        /\ UNCHANGED <<level, first, remaining, earlier, invalidity, failed, verdict,
                       verified, errors, errorQueries, limit>>
    BY DEF OnUnexpected, Returned
  <1>2. UNCHANGED <<mode, state, infos, nameScopes, stack, cores, phase, candidates, pending, certain,
                    result, blamed>>
    BY <1>1 DEF airVars
  <1>3. TypeOK'  BY <1>1, <1>2 DEF LoopInv, TypeOK
  <1>4. PhasesOK' /\ StackOK' /\ OffExplained' /\ ValidExplained' /\ CandidatesOK' /\ CountsOK'
    BY <1>1, <1>2 DEF PhasesOK, StackOK, OffExplained, ValidExplained, CandidatesOK, CountsOK
  <1>5. ScopesRestored' /\ BlameJustified' /\ VerdictSound'
    BY <1>1, <1>2 DEF LoopInv, ScopesRestored, BlameJustified, VerdictSound
  <1>. QED  BY <1>3, <1>4, <1>5 DEF LoopInv

(* finish_query: the scope of the query goes, on both sides. *)
LEMMA FinishKeeps ==
    ASSUME LoopInv, Finish
    PROVE  LoopInv'
  <1>1. /\ pc = "end" /\ pc' = "idle" /\ phase = "idle" /\ result' = "none" /\ FinishQuery
        /\ UNCHANGED <<level, first, remaining, earlier, invalidity, failed, verdict,
                       verified, errors, errorQueries, limit>>
        /\ UNCHANGED <<mode, infos, cores, phase, candidates, pending, certain, blamed>>
    BY DEF Finish, FinishQuery
  <1>2. /\ Top \in Nat /\ Top >= 1 /\ stack \in Seq(Scope) /\ nameScopes \in Int
        /\ \A j \in 1 .. Top - 1 : stack[j] = EmptyScope
        /\ mode = "many" => nameScopes = Top /\ Top >= 2
    <2>1. QueryScope = Top  BY <1>1 DEF QueryScope
    <2>. QED  BY <1>1, <2>1, LenProperties DEF LoopInv, StackOK, TypeOK, Top
  <1>3. /\ stack' \in Seq(Scope) /\ nameScopes' \in Int
        /\ \/ state' = "NoMoreQueriesAllowed"
           \/ nameScopes' = Top' /\ Top' >= 1 /\ \A j \in 1..Top' : stack'[j] = EmptyScope
    <2>1. CASE state' = "NoMoreQueriesAllowed" /\ UNCHANGED <<stack, nameScopes>>
      BY <1>2, <2>1
    <2>2. CASE mode = "many" /\ nameScopes' = nameScopes - 1 /\ stack' = SubSeq(stack, 1, Top - 1)
      <3>1. /\ stack' \in Seq(Scope) /\ Top' = Top - 1
            /\ \A j \in 1 .. Top - 1 : stack'[j] = stack[j]
        BY <1>2, <2>2, Popped DEF Top
      <3>. QED  BY <1>2, <2>2, <3>1
    <2>. QED  BY <1>1, <2>1, <2>2 DEF FinishQuery
  <1>4. TypeOK'  BY <1>1, <1>3 DEF LoopInv, TypeOK
  <1>5. PhasesOK' /\ StackOK' /\ OffExplained' /\ ValidExplained' /\ CandidatesOK' /\ CountsOK'
    BY <1>1, <1>3 DEF PhasesOK, StackOK, OffExplained, ValidExplained, CandidatesOK, CountsOK
  <1>6. ScopesRestored'  BY <1>1, <1>3 DEF ScopesRestored
  <1>7. BlameJustified' /\ VerdictSound'  BY <1>1 DEF LoopInv, BlameJustified, VerdictSound
  <1>. QED  BY <1>4, <1>5, <1>6, <1>7 DEF LoopInv

LEMMA StutterKeeps ==
    ASSUME LoopInv, UNCHANGED vars
    PROVE  LoopInv'
  <1>1. /\ UNCHANGED <<pc, level, first, remaining, earlier, invalidity, failed, verdict,
                       verified, errors, errorQueries, limit>>
        /\ UNCHANGED <<mode, state, infos, nameScopes, stack, cores, phase, candidates, pending,
                       certain, result, blamed>>
    BY DEF vars, airVars, loopVars
  <1>2. TypeOK' /\ PhasesOK'  BY <1>1 DEF LoopInv, TypeOK, PhasesOK
  <1>3. StackOK'
    <2>1. QueryScope' = QueryScope /\ Top' = Top  BY <1>1 DEF QueryScope, Top
    <2>. QED  BY <1>1, <2>1 DEF LoopInv, StackOK
  <1>4. OffExplained'
    <2>1. Reported' = Reported /\ FailedSet' = FailedSet  BY <1>1 DEF Reported, FailedSet
    <2>. QED  BY <1>1, <2>1 DEF LoopInv, OffExplained
  <1>5. ValidExplained'  BY <1>1 DEF LoopInv, ValidExplained, LaterLabels
  <1>6. CandidatesOK'  BY <1>1 DEF LoopInv, CandidatesOK, First
  <1>7. CountsOK' /\ VerdictSound' /\ BlameJustified'
    BY <1>1 DEF LoopInv, CountsOK, VerdictSound, BlameJustified
  <1>8. ScopesRestored'  BY <1>1 DEF LoopInv, ScopesRestored, Top
  <1>. QED  BY <1>2, <1>3, <1>4, <1>5, <1>6, <1>7, <1>8 DEF LoopInv

-----------------------------------------------------------------------------
(* Theorems *)

(* LoopInv holds in every reachable state of the loop and its context.     *)
THEOREM LoopInvariant == Spec => []LoopInv
  <1>1. Init => LoopInv  BY InitHolds
  <1>2. LoopInv /\ [Next]_vars => LoopInv'
    <2>. SUFFICES ASSUME LoopInv, [Next]_vars PROVE LoopInv'  OBVIOUS
    <2>1. CASE Declare  BY <2>1, DeclareKeeps
    <2>2. CASE \E lev \in Level, query \in Query : StartQuery(lev, query)  BY <2>2, StartKeeps
    <2>3. CASE SolverSteps  BY <2>3, SolverKeeps
    <2>4. CASE OnValid  BY <2>4, ValidKeeps
    <2>5. CASE OnCanceled \/ OnNowhere \/ OnOnlyInvalid  BY <2>5, EndsInError
    <2>6. CASE OnInvalid  BY <2>6, InvalidKeeps
    <2>7. CASE OnUnexpected  BY <2>7, UnexpectedKeeps
    <2>8. CASE Finish  BY <2>8, FinishKeeps
    <2>9. CASE UNCHANGED vars  BY <2>9, StutterKeeps
    <2>. QED  BY <2>1, <2>2, <2>3, <2>4, <2>5, <2>6, <2>7, <2>8, <2>9 DEF Next
  <1>. QED  BY <1>1, <1>2, PTL DEF Spec

(* A query that check_result_validity counts as verified cannot fail, and  *)
(* every query at level Error is counted once, whatever the solver answers *)
(* and however often the query is checked.                                 *)
THEOREM VerdictsSound == Spec => []VerdictSound
  <1>1. LoopInv => VerdictSound  BY DEF LoopInv
  <1>. QED  BY <1>1, LoopInvariant, PTL

(* When the further checks of check_result_validity end without the note   *)
(* that errors may be missing, each failure of the query has an assertion  *)
(* that was reported.                                                      *)
THEOREM FailuresBlamed == Spec => []EveryFailureBlamed
  <1>1. LoopInv => EveryFailureBlamed
    <2>. SUFFICES ASSUME LoopInv, pc = "end", result = "Valid", remaining > 0, NEW core \in cores
                  PROVE  core \cap FailedSet # {}
      BY DEF EveryFailureBlamed
    <2>1. earlier = "no" /\ infos \subseteq Reported
      BY DEF LoopInv, OffExplained, TypeOK
    <2>2. Reported = FailedSet  BY DEF Reported
    <2>3. \E l \in core : l \in infos  BY <2>1 DEF LoopInv, ValidExplained
    <2>. QED  BY <2>1, <2>2, <2>3
  <1>. QED  BY <1>1, LoopInvariant, PTL

(* When the checks of check_result_validity end with Valid, no failure     *)
(* lies wholly before the first assertion reported: the purpose of         *)
(* only_check_earlier.                                                     *)
THEOREM EarliestFirst == Spec => []EarliestBlamed
  <1>1. LoopInv => EarliestBlamed
    <2>. SUFFICES ASSUME LoopInv, pc = "end", result = "Valid", NEW core \in cores
                  PROVE  \E l \in core, f \in FailedSet : f <= l
      BY DEF EarliestBlamed
    <2>1. Reported = FailedSet /\ \A l \in infos : \E f \in FailedSet : f <= l
      BY DEF Reported, LoopInv, OffExplained
    <2>2. FailedSet \subseteq Int /\ infos \subseteq Int
      <3>1. FailedSet \subseteq Label /\ infos \subseteq Label
        BY ElementOfSeq DEF FailedSet, LoopInv, TypeOK
      <3>. QED  BY <3>1 DEF Label
    <2>3. PICK l \in core : l \in infos \/ l \in LaterLabels  BY DEF LoopInv, ValidExplained
    <2>4. CASE l \in infos  BY <2>1, <2>4
    <2>5. CASE l \in LaterLabels
      <3>1. l \in Int  BY <2>5 DEF LaterLabels, Label
      <3>2. PICK d \in infos : d < l  BY <2>5 DEF LaterLabels
      <3>3. PICK f \in FailedSet : f <= d  BY <2>1
      <3>4. f <= l  BY <2>2, <3>1, <3>2, <3>3
      <3>. QED  BY <3>4
    <2>. QED  BY <2>3, <2>4, <2>5
  <1>. QED  BY <1>1, LoopInvariant, PTL

(* If all answers were definite, smt_get_model blames an assertion that    *)
(* fails on its own, unless none of several candidates does.               *)
THEOREM BlameSound == Spec => []BlameJustified
  <1>1. LoopInv => BlameJustified  BY DEF LoopInv
  <1>. QED  BY <1>1, LoopInvariant, PTL

(* Between queries the solver and the context have the same scopes, and    *)
(* none of them holds anything of an earlier query, whatever was popped,   *)
(* left open for the observer or cut short by an answer.                   *)
THEOREM ScopesAlwaysRestored == Spec => []ScopesRestored
  <1>1. LoopInv => ScopesRestored  BY DEF LoopInv
  <1>. QED  BY <1>1, LoopInvariant, PTL
=============================================================================
