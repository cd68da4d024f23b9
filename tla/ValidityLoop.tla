---------------------------- MODULE ValidityLoop ----------------------------
(***************************************************************************)
(* check_result_validity of rust_verify/src/verifier.rs on top of the      *)
(* AIR context: a query is checked, an error is recorded, and the query is *)
(* checked again for further errors, up to --multiple-errors of them and   *)
(* then only for errors before all those found.                            *)
(***************************************************************************)
EXTENDS AirContext

CONSTANTS
    MultipleErrors,     \* values of --multiple-errors
    MaxQueries          \* bound: queries sent through the context

ASSUME LoopAssumption ==
    /\ MultipleErrors \subseteq Nat
    /\ MaxQueries \in Nat

VARIABLES
    pc,             \* "idle", "loop", "end" (the loop was left) or "panic"
    level,          \* "error", "note", "expand" (note with expand_flag) or "none"
    first,          \* is_first_check, "yes" or "no"
    remaining,      \* checks_remaining
    earlier,        \* only_check_earlier, "yes" or "no"
    invalidity,     \* "yes" or "no"
    timedOut,       \* "yes" or "no"
    funcFailed,     \* "yes" when the query's function was put in func_fails
    failed,         \* assertions recorded as failed, in order
    verdict,        \* "none", "verified" or "failed": how the query was counted
    note,           \* "yes" when the note on unreported errors was printed
    verified,       \* count_verified
    errors,         \* count_errors
    queries,        \* queries started
    errorQueries,   \* those of them at level error
    limit           \* the value of --multiple-errors

loopVars == <<pc, level, first, remaining, earlier, invalidity, timedOut, funcFailed, failed,
              verdict, note, verified, errors, queries, errorQueries, limit>>
vars == <<airVars, loopVars>>

Level == {"error", "note", "expand", "none"}
FailedSet == {failed[n] : n \in 1..Len(failed)}

-----------------------------------------------------------------------------
Init ==
    /\ AirInit
    /\ pc = "idle"
    /\ level = "none"
    /\ first = "yes"
    /\ remaining = 0
    /\ earlier = "no"
    /\ invalidity = "no"
    /\ timedOut = "no"
    /\ funcFailed = "no"
    /\ failed = <<>>
    /\ verdict = "none"
    /\ note = "no"
    /\ verified = 0
    /\ errors = 0
    /\ queries = 0
    /\ errorQueries = 0
    /\ limit \in MultipleErrors

\* Commands that are no queries leave the loop at once, with Valid and uncounted.
Declare ==
    /\ pc = "idle"
    /\ Global \/ Push \/ Pop \/ (queries = 0 /\ SetSingleCheckQuery)
    /\ UNCHANGED loopVars

StartQuery(lev, query) ==
    /\ pc = "idle"
    /\ queries < MaxQueries
    /\ CheckValid(query)
    /\ pc' = "loop"
    /\ level' = lev
    /\ first' = "yes"
    /\ remaining' = limit
    /\ earlier' = "no"
    /\ invalidity' = "no"
    /\ timedOut' = "no"
    /\ funcFailed' = "no"
    /\ failed' = <<>>
    /\ verdict' = "none"
    /\ note' = "no"
    /\ queries' = queries + 1
    /\ errorQueries' = IF lev = "error" THEN errorQueries + 1 ELSE errorQueries
    /\ UNCHANGED <<verified, errors, limit>>

SolverSteps == pc = "loop" /\ Solve /\ UNCHANGED loopVars

Returned(r) == pc = "loop" /\ phase = "idle" /\ result = r

OnValid ==
    /\ Returned("Valid")
    /\ IF first = "yes" /\ level = "error"
       THEN verified' = verified + 1 /\ verdict' = "verified"
       ELSE UNCHANGED <<verified, verdict>>
    /\ pc' = "end"
    /\ UNCHANGED <<airVars, level, first, remaining, earlier, invalidity, timedOut,
                   funcFailed, failed, note, errors, queries, errorQueries, limit>>

\* Mutant: an error is counted every time one is found.
CountErrorEach ==
    /\ IF level = "error"
       THEN errors' = errors + 1 /\ verdict' = "failed"
       ELSE UNCHANGED <<errors, verdict>>
    /\ invalidity' = IF level \in {"error", "expand"} THEN "yes" ELSE invalidity

\* An error counts once for its query, and makes it invalid.
CountError ==
    /\ IF first = "yes" /\ level = "error"
       THEN errors' = errors + 1 /\ verdict' = "failed"
       ELSE UNCHANGED <<errors, verdict>>
    /\ invalidity' = IF level = "expand" \/ (first = "yes" /\ level = "error")
                     THEN "yes" ELSE invalidity

\* The function goes into func_fails with its first error.
ListFunction ==
    funcFailed' = IF first = "yes" /\ level = "error" THEN "yes" ELSE funcFailed

\* Mutant: the loop is not left when the solver gives up.
OnCanceledStays ==
    /\ Returned("Canceled")
    /\ timedOut' = "yes"
    /\ UNCHANGED <<airVars, pc, level, first, remaining, earlier, invalidity, funcFailed, failed, verdict,
                   note, verified, errors, queries, errorQueries, limit>>

OnCanceled ==
    /\ Returned("Canceled")
    /\ CountError
    /\ ListFunction
    /\ timedOut' = "yes"
    /\ pc' = "end"
    /\ UNCHANGED <<airVars, level, first, remaining, earlier, failed, note, verified, queries, errorQueries, limit>>

\* Invalid without a location; this branch does not touch func_fails.
OnNowhere ==
    /\ Returned("Nowhere")
    /\ CountError
    /\ pc' = "end"
    /\ UNCHANGED <<airVars, level, first, remaining, earlier, timedOut, funcFailed, failed,
                   note, verified, queries, errorQueries, limit>>

\* An error with a location when further errors are not asked for.
OnOnlyInvalid ==
    /\ Returned("Invalid")
    /\ limit = 0
    /\ CountError
    /\ ListFunction
    /\ failed' = Append(failed, blamed)
    /\ pc' = "end"
    /\ UNCHANGED <<airVars, level, first, remaining, earlier, timedOut, note, verified, queries, errorQueries, limit>>

\* Mutant: the further checks are for earlier errors from the start.
NextEarlierSoon == "yes"

\* only_check_earlier for the next check.
NextEarlier == IF earlier = "yes" \/ remaining = 1 THEN "yes" ELSE "no"

\* Checks for earlier errors are not counted.
NextRemaining == IF earlier = "yes" THEN remaining ELSE remaining - 1

\* An error with a location, and a check for another one.
OnInvalid ==
    /\ Returned("Invalid")
    /\ limit > 0
    /\ CountError
    /\ ListFunction
    /\ failed' = Append(failed, blamed)
    /\ first' = "no"
    /\ remaining' = NextRemaining
    /\ earlier' = NextEarlier
    /\ CheckValidAgain(NextEarlier)
    /\ UNCHANGED <<pc, level, timedOut, note, verified, queries, errorQueries, limit>>

OnUnexpected ==
    /\ Returned("UnexpectedOutput")
    /\ pc' = "panic"
    /\ UNCHANGED <<airVars, level, first, remaining, earlier, invalidity, timedOut, funcFailed,
                   failed, verdict, note, verified, errors, queries, errorQueries, limit>>

\* The note that not all errors may have been reported.
NoteDue == level = "error" /\ remaining = 0

Finish ==
    /\ pc = "end"
    /\ note' = IF NoteDue THEN "yes" ELSE note
    /\ FinishQuery
    /\ pc' = "idle"
    /\ UNCHANGED <<level, first, remaining, earlier, invalidity, timedOut, funcFailed, failed, verdict,
                   verified, errors, queries, errorQueries, limit>>

Next ==
    \/ Declare
    \/ \E lev \in Level, query \in Query : StartQuery(lev, query)
    \/ SolverSteps
    \/ OnValid \/ OnCanceled \/ OnNowhere \/ OnOnlyInvalid \/ OnInvalid \/ OnUnexpected
    \/ Finish

Spec == Init /\ [][Next]_vars

Progress ==
    \/ SolverSteps
    \/ OnValid \/ OnCanceled \/ OnNowhere \/ OnOnlyInvalid \/ OnInvalid \/ OnUnexpected
    \/ Finish

\* The solver answers every command, since it runs under a resource limit; the
\* loop itself waits for nothing else.
LiveSpec == Spec /\ WF_vars(Progress)

-----------------------------------------------------------------------------
(* A query at level Error is counted once, as verified or as an error,      *)
(* however many of its assertions fail and however its checks end; it       *)
(* counts as verified only when no assertion of it can fail, and the caller *)
(* is told of invalidity exactly when it was counted as failed.             *)
VerdictSound ==
    /\ verdict = "verified" => cores = {}
    /\ pc \in {"idle", "end"} => verified + errors = errorQueries
    /\ pc = "end" => (level = "error" <=> verdict # "none")
    /\ pc = "end" /\ level = "error" => (invalidity = "yes" <=> verdict = "failed")

(* When the checks end without the note that errors may be missing, every   *)
(* way in which the query can fail has an assertion that was reported.      *)
EveryFailureBlamed ==
    pc = "end" /\ result = "Valid" /\ remaining > 0 =>
        \A core \in cores : core \cap FailedSet # {}

(* The purpose of only_check_earlier: when the checks end, no failure lies  *)
(* wholly before the first assertion reported.                              *)
EarliestBlamed ==
    pc = "end" /\ result = "Valid" =>
        \A core \in cores : \E l \in core, f \in FailedSet : f <= l

(* The blame falls on an assertion that fails on its own whenever the       *)
(* answers allow that: a spuriously true label is never reported in place   *)
(* of a candidate that really fails.                                        *)
BlameJustified ==
    result = "Invalid" /\ certain = "yes" =>
        \/ {blamed} \in cores
        \/ Cardinality(candidates) > 1 /\ \A i \in candidates : {i} \notin cores

(* Between queries the solver and the name maps have the same scopes, and   *)
(* nothing of an earlier query is left in them.                             *)
ScopesRestored ==
    pc = "idle" /\ state # "NoMoreQueriesAllowed" =>
        /\ nameScopes = Top
        /\ \A i \in 1..Top : stack[i] = EmptyScope

(* The note that errors may be missing is not printed for a verified query. *)
(* It is, with --multiple-errors 0: no run checks this, see the README.     *)
NoteOnlyOnErrors == note = "yes" => verdict # "verified"

(* func_fails holds the functions that failed to verify: a query counted as *)
(* an error has its function there.                                         *)
FailureListed == verdict = "failed" => funcFailed = "yes"

(* The loop ends: each error found takes a label away.                      *)
QueryEnds == pc = "loop" ~> pc \in {"idle", "panic"}

-----------------------------------------------------------------------------
(* The inductive invariant behind the theorems of ValidityLoopProofs.       *)

TypeOK ==
    /\ pc \in {"idle", "loop", "end", "panic"}
    /\ mode \in {"many", "single"}
    /\ stack \in Seq(Scope)
    /\ nameScopes \in Int
    /\ cores \in Query
    /\ infos \subseteq Label
    /\ candidates \subseteq Label /\ pending \subseteq candidates
    /\ result = "Invalid" => blamed \in Label
    /\ failed \in Seq(Label)
    /\ remaining \in Int /\ limit \in Int /\ earlier \in {"yes", "no"}
    /\ verified \in Nat /\ errors \in Nat /\ errorQueries \in Nat

(* The context is between two exchanges only while the loop waits for it.   *)
PhasesOK == phase # "idle" => pc = "loop" /\ result = "none"

(* While a query is open, the solver holds it in one scope, over empty      *)
(* ones, with exactly the labels off that infos says; above it there is at  *)
(* most the scope of the observer.                                          *)
QueryScope == IF phase = "observe" THEN Top - 1 ELSE Top
StackOK ==
    /\ pc = "idle" /\ state # "NoMoreQueriesAllowed" => Top >= 1
    /\ pc \in {"loop", "end"} =>
          /\ QueryScope >= 1
          /\ \A i \in 1 .. QueryScope - 1 : stack[i] = EmptyScope
          /\ stack[QueryScope] = [off |-> infos, goals |-> 1]
          /\ mode = "many" => nameScopes = QueryScope /\ QueryScope >= 2

(* The labels that are off were reported, or come after one that was.       *)
Reported == FailedSet \cup (IF pc = "loop" /\ result = "Invalid" THEN {blamed} ELSE {})
OffExplained ==
    pc \in {"loop", "end"} =>
        /\ \A l \in infos : \E f \in Reported : f <= l
        /\ earlier = "no" => infos \subseteq Reported
        /\ earlier = "yes" => remaining = 0
        /\ pc = "loop" /\ first = "yes" => earlier = "no" /\ FailedSet = {}

(* Valid means that every failure has a label that is off, or one that      *)
(* only_check_earlier would switch off.                                     *)
ValidExplained ==
    pc \in {"loop", "end"} /\ result = "Valid" =>
        \A core \in cores : \E l \in core : l \in infos \/ (earlier = "yes" /\ l \in LaterLabels)

(* The candidates and what their confirmations have shown so far.           *)
CandidatesOK ==
    /\ phase \in {"confirm", "choose", "observe"} =>
          /\ candidates # {} /\ candidates \cap infos = {}
          /\ \A i \in candidates \ pending : {i} \notin cores
    /\ phase = "confirm" => pending # {} /\ Cardinality(candidates) > 1
    /\ phase \in {"choose", "observe"} =>
          /\ pending = {} => Cardinality(candidates) > 1
          /\ certain = "yes" => \A i \in pending : First(pending, i) => {i} \in cores

(* How far the current query has been counted.                              *)
CountsOK ==
    /\ pc = "loop" /\ level = "error" /\ first = "yes" => verified + errors + 1 = errorQueries
    /\ pc = "loop" /\ ~(level = "error" /\ first = "yes") => verified + errors = errorQueries
    /\ pc = "loop" => (verdict # "none" <=> level = "error" /\ first # "yes")
    /\ pc = "loop" /\ level = "error" =>
          (verdict = "none" \/ verdict = "failed") /\ (invalidity = "yes" <=> verdict = "failed")

LoopInv ==
    /\ TypeOK /\ PhasesOK /\ StackOK /\ OffExplained /\ ValidExplained /\ CandidatesOK /\ CountsOK
    /\ ScopesRestored /\ BlameJustified /\ VerdictSound
=============================================================================
