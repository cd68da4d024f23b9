# A TLA+ model of Verus

Verus checks Rust programs by turning each function into logical queries, which it
sends to an SMT solver. Users trust one thing above all: *"verified" means that every
obligation was asked and answered, and the answer belonged to that obligation.* Most of
Verus is a syntax-directed translation. Around it sits machinery with state: threads,
channels, pipes to a solver process, queues with retries, scopes that are pushed and
popped, flags carried from one solver answer to the next. Before it sit a few graph
algorithms that decide *what* is asked at all: which items are kept, in which order they are
declared, where a value may be assumed to be final. This project models that machinery and
those algorithms, checks them with TLC and proves the central parts with TLAPS.

Paths below are relative to `src/source/`. `PROJECT.json` maps every definition to the
lines it stands for, and every property to a mutation of the code that breaks it.

## 1. The system

### Components, their state and how they interact

```
 rustc ──> driver.rs / verifier.rs (verify_crate_inner)
              │ resolution points of each function body    [Resolution, ResolutionCfg]
              │ merged crates pruned for the current one    [Prune]      ┐
              │ inherited methods, simplification           [Prune]      │
              │ call graph, components, their order         [CallGraph, Scc]  [Crate]
              │ split into buckets (modules, functions),                 │
              │ pruned again for each of them               [Prune]      ┘
              ▼
        task queue ──> worker threads ──mpsc──> main thread: diagnostics, merge
              │ one bucket each                                  [WorkerPool, BucketReport]
              ▼
        OpGenerator / FunctionOpGenerator: queue of operations    [QueryOps]
              │ query ops            ▲ retries, --profile reruns, --expand-errors
              ▼                      │
        check_result_validity: loop over further errors     [ValidityLoop, ExpandErrors]
              │ check_valid / check_valid_again / finish_query
              ▼
        air Context: scopes, labels, models                 [AirContext, ScopeMap, ScopeStack]
              │ text
              ▼
        SmtProcess: writer thread, reader thread, pipes ── solver   [SmtProcess]

 vstd (what verified programs link against): reader-writer lock   [RwLockValues, RwLockToks, RwLock]
```

| Component | State | Operations | What is hard | What makes it correct |
|---|---|---|---|---|
| Worker pool and reporter (`rust_verify/src/verifier.rs`, `verify_crate_inner`) | task queue, channel, active bucket, buffered diagnostics, progress bars, finished workers | pop, report (single, batch, now), done, panic; receive, drain, reap, join, merge | thread interleavings; panics; a receiver that holds its own sender | each diagnostic once, in order, one block per bucket; each bucket merged once; no hang |
| SMT process (`air/src/smt_process.rs`) | three channels, two pipes, holder of the `BufReader` | send, wait, wait with timeout, drop; write; read | bounded pipes; a solver that dies or is slow; timeouts | answers paired with requests; nothing carried over; no deadlock |
| SMT context (`air/src/context.rs`, `smt_verify.rs`) | `ContextState`, label infos, name scopes; the solver's assertion stack | push, pop, check_valid, check_valid_again, finish_query | two copies of one state; models that blame the wrong label; give-up at any check | verdict sound; blame on an assertion that fails; scopes restored |
| Validity loop (`verifier.rs`, `check_result_validity`) | `is_first_check`, `checks_remaining`, `only_check_earlier`, counts | one branch per `ValidityResult` | several checks of one query; limits at 0 and 1 | counted once; every failure blamed; earliest first; loop ends |
| Operation queue (`commands.rs`, loop of `verify_bucket`) | queue, driver, held-back diagnostics, profile files | next op, run commands, retry, rerun, expand, flush | retries at both ends of the queue; early exits | obligations before their own axioms; no operation or error lost |
| Expand-errors driver (`expand_errors_driver.rs`) | position in a tree, results, output list | report, advance, descend, skip to end, splice | three structures kept in step | every leaf asked once, output is one tree |
| Scoped maps (`air/src/scope_map.rs`) | one flat map, undo maps, `cannot_shadow` | push, pop, insert, insert_at, replace | outer views exist only as undo entries; callers that discard the `Err` of a second insert | behaves as a stack of scopes |
| Reader-writer lock (`vstd/rwlock.rs`) | `exc`, `rc`, `cell`; tokens | acquire/release write and read, into_inner | order of four atomic accesses; overflow; dropped handles | exclusion; cell initialised; count exact; progress |
| Pruning (`vir/src/prune.rs`; conversions in `traits.rs`, `ast_simplify.rs`) | reached items and eight worklists; functions reached by a call | pop a function, group, type, trait, associated type, implementation; finish; convert; start again for a bucket | items that are kept only when *all* they depend on is reached, whichever comes last; a second pruning over what the conversions made of the result of the first | exactly what is needed is kept; a lemma kept only for broadcast is never called; the bucket misses nothing |
| Call graph and components (`vir/src/context.rs`, `scc.rs`) | nodes, edges, Tarjan's stack and indices, component order | build, sort, add edges to trait implementations, sort again; ask for components, cycles, paths | index arithmetic; answers from one graph used to change another | components and answers are those of the graph; callees before callers |
| Resolution inference (`vir/src/resolution_inference.rs`) | control flow graph, worklist, values of two analyses, points chosen | visit a block forward and backward, choose, insert, pass on | fixed points over loops and joins; "only where useful"; blocks without a place in the AST | no value changes after it was assumed resolved; no useful assumption is left out |
| Crate pipeline (buckets, filters), Rust to VIR, mode checks, lowering, interpreter, macros, front ends, cargo-verus, vendored compiler crates | — | — | — | not modelled; reasons in section 7 |

`PROJECT.json` lists the hazards with the line where each bites and the properties that
would catch it.

## 2. Plan

Done, in this order: the worker pool with its report and proofs; the SMT process with its
proofs; the context and the validity loop with its proofs; the operation queue and the
expand-errors driver with their proofs; the scoped maps with their refinement proved; the
reader-writer lock with its proofs; pruning, for the crate and then for a bucket, with its
proofs; components, the call graph and their composition along the pipeline of a crate, with
their proofs; resolution inference with its proofs, of the assumptions made and of the analyses.

Left, in the order of their worth:

1. **`BucketOps`** – the components of a bucket in the order of `CallGraph` on top of
   `QueryOps`, to show that no obligation is checked after an axiom that depends on it,
   across components. `CalleesFirst` and `AxiomsAfterObligations` are its two halves.
2. **Resolution**: the asserts that mention `has_resolved`, which reuse the two analyses for
   all sub-places of a place, and closures, which nest one graph in another.
3. **`InvMasks`** – `vir/src/inv_masks.rs` against sets of namespaces; **`Buckets`** –
   `rust_verify/src/buckets.rs` and `user_filter.rs`: the buckets partition the functions
   selected.
4. **`VarToConst`** – `air/src/var_to_const.rs` and `block_to_assert.rs` against a
   reference evaluator on bounded programs; the loop of the AIR shell in `air/src/main.rs`.

## 3. Modules

One module per component; `MC*` modules only extend the module they check and hold the
values of constants that a configuration cannot write. `*Proofs` modules hold theorems.
Flags that the code keeps as `bool` are `"yes"`/`"no"` in most modules, which the provers
handle better than BOOLEAN-valued variables. A definition introduced by a comment
"Mutant:" is a plausible mistake in the definition that follows it and is used by no
specification.

**`BucketReport`** – what the diagnostics of a parallel run promise to a reader: a
sequence of blocks, one per bucket, never reopened.

**`WorkerPool`** – the parallel branch of `verify_crate_inner`. `taskq` is the
`Mutex<VecDeque>`, `queue` the mpsc channel, `buffered`/`done` the vector `messages`,
`active` is `active_bucket`, `local` is `local_msgs`. A worker action is one channel
operation or one lock; a main-thread action is one message handled, one round of the loop
that drains buffers, one scan over finished workers, or the joining. What happens inside a
bucket is the messages it sends and whether it ends in `Ok`, `Err` or a panic.
`OneBlockPerBucket` is the refinement of `BucketReport`: `out` is what was printed, `open`
the active bucket, `closed` the buckets that are done with an empty buffer.

**`SmtProcess`** – the owner of an `SmtProcess`, its writer and reader thread, the channels
and the two pipes, plus the solver as an external process that reads commands, prints
lines, may crash at any point and exits at end of input. When its stdout is full it stops
where it is, in the middle of an answer (`work = "line"`) too. A request is the number of its
commands. The `BufReader` travels between owner and reader; `buf` says who holds it.
Unwinding from a panic runs `Drop`, as in the code.

**`AirContext`** – `context.rs` and `smt_verify.rs`. A query is given by its *cores*, the
sets of assertion labels whose joint failure makes it fail; the solver holds a stack of
scopes with negated labels; the context believes `infos`. The solver is sound for `unsat`
and may otherwise answer sat, unknown or give up, with a model that sets any
labels. **`ValidityLoop`** extends it with `check_result_validity`; the value of
`--multiple-errors` is chosen in the initial state.

**`QueryOps`** – `handle_scc_component`, `FunctionOpGenerator` and the loop of
`verify_bucket` over one component. A query is an operation with a number of command
lists, each with an outcome that `ValidityLoop` details. `diagnostics_to_report` is `sink`
and `held`; `files` are the profile files. The size of the component and the options are
`config`, chosen in the initial state.

**`ExpandErrors`** – `ExpandErrorsDriver`. Identifiers are sequences of numbers, an
expansion is its number of leaves and whether a function was unfolded, the output is a
list of lines with indentation.

**`ScopeStack`**, **`ScopeMap`** – the abstract stack of scopes and the flat map that
implements it. `ImplementsScopeStack` rebuilds each outer view from the undo maps. A second
insert of a key in a scope that allows shadowing answers `Err` *after* it has changed the map
and overwritten the undo entry. Many callers discard that `Err` with `let _ =`
(`vir/src/sst_util.rs`, `ast_visitor.rs`, `sst_visitor.rs`, `poly.rs`) and use the map on, and
the model does the same. The contract says what they get (`BindAgain`): the scope sees the
new value, and the scopes below that saw what the first binding hid will see the first binding
itself once the scope is popped. `base` is what is seen below all scopes, empty but for such
keys; `twice` remembers them.

**`RwLockToks`** – the tokenized state machine at the head of `vstd/rwlock.rs`, transition
by transition. **`RwLock`** – the lock as it runs, one step per access of `exc`, `rc` and
`cell`; the atomics of `vstd/atomic.rs` are sequentially consistent. A client is one use
of the lock. `ImplementsToks` maps a running lock to tokens by counting the clients at
each place (their common constants are in **`RwLockValues`**); the value counts as
withdrawn from the load of `rc` that finds zero until the store to `exc`.

**`Prune`** – `prune_krate_for_module_or_krate`, run once with everything of the current
crate as roots and once with one bucket. An expression, a signature or a bound is the set
of items it mentions; a crate is a record of such sets, of visibilities and of what
implements what. The code empties its eight worklists in a fixed order of kinds, which the
actions keep, one action per kind; the order among items of one kind comes from the visitors and is
arbitrary. Each action also runs the tests that may bring in an implementation or a broadcast lemma.

Between the two prunings what is left is rewritten (`Convert`: `_compute_merged_crate` after its
pruning, and `simplify_krate`). Methods of traits that nobody declared become plain functions
(`MethodsDeclared`); an implementation gets a copy of each default method it does not override
(`Made`, from `copies`); simplification makes implementations of the closure traits and of
`Tuple`, `Clone` and `Copy`, with associated types (`Made` too, from `made_for`), and brings in
types that need no declaration before, such as tuples, integers and the types of closures
(`Introduced`); and every item is left with other mentions (`simple_decl`, `simple_body`), to which
resolution inference adds the types of the places it assumes resolved. What these conversions may mention
is bounded by what the item they rewrite mentioned, plus the types of fields of the types
mentioned (`MayMention`): that is the assumption `Convertible` makes of a crate, next to the
shape of copies and implementations. The bucket's pruning runs on the result.

**`PruneTwice`** – the second pruning beside the first: what the bucket's would keep of the
crates as they were merged and converted (`Unpruned`), as an instance of `Prune` over `all`, the
items there would be without the crate's pruning. Three things are not expected back, and `Late`,
`CopiesDue` and `Useless` say so: an item that the first pruning dropped because nothing had
mentioned a type which then only the conversions mention; copies and implementations
for what nobody asked for; and a lemma that a group brings in while none of its
triggers is kept.

**`Scc`** – `scc.rs`. The recursive functions `strongconnect` and `sort_sccs_node` are state
machines with a stack of calls (`active`, `sorting`): entering a call, a turn of the loop over
the edges and returning are one step each; `index`, `lowlink`, `on_stack`, `stack` and
`counter` are the fields of the code. The questions asked of the result (`can_reach`,
`node_is_in_cycle`, `shortest_cycle_back_to_self`) are operators. **`CallGraph`** –
`GlobalCtx::new`: `graphStep` says which graph `Scc` is run on, the preliminary one, then the
final one; between the two, edges to trait implementations are added in the order of the
code's three loops (`scc`, `f4`, `f1`). **`Crate`** – pruning and call graph on one crate, in the order of `query.rs` and `verifier.rs`:
pruning, conversions, call graph, pruning for a bucket. The graph is the one `simplify_krate`
builds of the converted krate; a copy of a default method has the edges of the method, with the
calls of the trait's own methods redirected to its implementation (`CopyEdges`). `MCCrate` gives
four families of crates over one set of items: mentions, broadcast lemmas and a trait
(`MentionKrates`), two trait implementations that call each other (`ImplKrates`), plain calls
(`CallKrates`), and an implementation that inherits or overrides a default method, with a closure
and an integer type that simplification brings in (`ConvertedKrates`).

**`Resolution`** – `get_resolutions` for one tracked place (the places of the code do not
interact): the forward analysis (may it be uninitialised?), the reverse one (may it be
resolved?), the points chosen, and the recursion of `push_resolution` that passes a
resolution on from a block that has no place in the AST. It ends with an arbitrary
execution of the graph, which carries what the verifier was told; soundness and completeness
are stated of that execution and not of the analyses. **`ResolutionCfg`** – the builder of the graph
(`RECURSIVE`, for TLC only): blocks, branches, labelled loops, matches with guards, returns,
calls that unwind, declarations. `MCResolution` fills ten shapes of function bodies.

## 4. Runs

`tlc -config <cfg> <module>`; each finishes in seconds to about three minutes.

| Run | Question | Bounds and why they are enough |
|---|---|---|
| `pool` | Each diagnostic once, in order and in the block of its bucket? Each bucket merged once? Does the run end, also after a panic? Do the unwraps on the progress bars hold? | 2 buckets, 2 workers; one bucket sends up to 2 diagnostics in 2 sends (single, batch and "now" mix, batches arrive out of source order) while the other sends one, so that it is buffered, drained while running and drained when done; long-running queries share a progress-bar key |
| `smt` | Do answers stay paired? Does any request or drop hang? | 2 requests of up to 2 commands, 3 lines, pipes of 1 command and 2 lines: both pipes fill, an answer does not fit, the second request could see leftovers of the first, three blank lines fit |
| `validity` | Verdicts, blame, scopes; does the loop end? | 2 queries of 3 assertions, all families of cores, one user scope, `--multiple-errors` 0, 1 and 2: three assertions leave one before, one between and one after others |
| `validity_listed` | finding, section 6 | as `validity` |
| `ops` | Are operations, verdicts or errors lost, repeated or reordered? Do axioms wait for all obligations of the component? Does the queue run empty? | one function under `--profile` and `--expand-errors`, and two mutually recursive ones under `--expand-errors`; 2 command lists per query and 2 expanded queries, so that an error is found before, between and after flushes |
| `ops_profile` | finding, section 6 | as `ops`, one function |
| `expand` | Is every leaf asked once, except beyond the limits, and is the output one tree? | 4 levels, 2 leaves each, 3 failures: limits on failures and on depth are both reached inside a walk |
| `scope_map` | Is the map a stack of scopes? | 3 scopes of up to 2 inserts, 2 keys, 2 values (symmetric: they are only compared with each other): a key bound in all scopes, in the outer and the inner one only, and in none, and a key bound twice in the inner, the middle or the outer one |
| `rw` | Exclusion, cell and count, also when handles are dropped; does `into_inner` return? Does the lock implement its tokens? | 3 clients that read and write, count at most 2: it is full with one client left over |
| `resolution` | Do the analyses end with what the paths say? Is an assumption ever wrong, or missing? | ten shapes with up to 2 instructions in four holes, a local whose field is a mutable reference, the field and its target tracked: two instructions are one before and one after any join, back edge or unwind, and the start of the function is a third |
| `crate` | Is exactly what is needed kept, in every order? Does the first pruning take anything from the second, with the conversions in between? Are components, order and answers those of the graph? | `MentionKrates` with up to 3 facts (a lemma, its trigger and what reaches it), `ImplKrates` with up to 2 calls (enough for the cycle of section 6), `CallKrates` with up to 4 calls among four functions (a cycle through all, two cycles that share a node, a cycle with a way in and out), `ConvertedKrates` with up to 2 facts (an inherited method with what it mentions, an overriding one that nothing else asks for, a type brought in and what waits for it) |
| `crate_added` | finding, section 6 | `ImplKrates` as in `crate` |

Bounds named `Max…` in the modules cap what is unbounded in the code (messages, requests,
queries, scopes); where a constant stands for a limit of the code (`MaxRc` for
`usize::MAX`, `MaxFailures` and `MaxDepth` for `MAX_FAILURES` and `MAX_DEPTH`) it is smaller
than in the code, so that the limit is reached. Deadlock is checked for the pool, for
resolution inference and for the crate (there the end of the program is an explicit step); the
other runs turn it off because the modelled object legitimately comes to an end, which
their liveness properties are about if they have any, or, in `rw`, because clients wait for
ever for a dropped handle.

### Fairness

* *Pool*: every thread is scheduled; a bucket ends, since its queries run under rlimit.
  Workers need not report, panic or fail.
* *SMT process*: the three threads are scheduled, and the solver is; it does not stay in one
  command for ever (rlimit) and an answer has finitely many lines. No fairness for crashes, timeouts or the owner's wish to send.
* *Validity loop, operation queue*: one thread, each solver command is answered.
* *Resolution inference*: a sequential program, which takes every step it can
  (`InferenceEnds` is then about the worklists). None for the execution that follows.
* *Lock*: a client that has called goes on and releases what it holds, as its
  documentation demands, unless it drops its handle first, which the run `rw` allows at any
  time: `InnerReturns` then promises nothing. Weak fairness only, and nothing is claimed
  for writers in competition with readers, who can make them starve.

## 5. Proofs

All theorems hold for every value of the constants that meets the named assumptions
(finite sets of workers or clients, positive capacities). Each proof rests on an inductive
invariant that is stated in the component's module.

**Worker pool** (`WorkerPoolProofs`; `PoolInv`). `NothingStranded` is not inductive: a late
diagnostic of a finished bucket would be buffered with nobody to drain it. `PoolInv` adds
that a bucket has one owner (`OneOwner`), that `Done` is the last message of a bucket in the
channel (`DoneIsLast`), that messages carry their own bucket, that `num_done` counts
the buckets marked done (`CountsDone`), and that what was printed belongs to the active
bucket or a closed one. From it: `TypeCorrect`, `NeverStranded` (the assertion in the
`Done` handler holds), `NothingLost` (the early return with `VerifyErr::Emitted` skips
nothing) and `PoolImplementsReport` (the pool implements `BucketReport`).

Three more invariants follow the diagnostics, the results and the progress bars. `WayInv`: on
the way of a bucket's diagnostics, from the channel over `local_msgs` to the buffer and the
output, the order is strict and none is missing; it gives `DiagnosticsInOrder`. `ResultsOK`:
a bucket that is announced as done has one entry in the completed tasks of one worker, and
one that is still queued or being verified has none; it gives `NothingLostNothingTwice`.
`BarsInv`: as long as no worker has panicked, the messages of a bucket about its bar
alternate in the channel and every bar that is yet to be finished is there (`BarsMatch`,
which allows for two buckets that share a key), so that no `unwrap` fails; it gives
`NoPanicByItself`.

**SMT process** (`SmtProcessProofs`; `SmtInv`). `AnswersPaired` needs to know where every
token and line of the current request is: `CommandsInOrder` (the echo is the last command
that prints), `DoneIsLast` (nothing is left to run once `DONE` is printed), `LinesInOrder`
(collected lines plus the pipe are what was printed, by who holds the `BufReader`) and
`DeathExplained`. From it: `TypeCorrect`, `RequestsAndAnswersPaired`,
`NothingCarriedOver`, `ReaderNeverMissing`, `PanicsExplained` – for all pipe capacities and
any number of requests.

**Reader-writer lock** (`RwLockProofs`; `LockInv`). Exclusion needs the exact count: a
writer goes ahead when it reads zero, so zero must mean that there are no readers. The exact
count needs its range: it must not wrap, which follows from the test before the
compare-exchange (`ValBelowMax`) and from the fact that only counted clients subtract.
`FlagOwned` gives the flag one owner and `CellHeld` says what the cell holds at each
place. From it: `TypeCorrect`, `WritersAlone`, `CellNeverMisused`, `CountNeverOff`, and
`LockImplementsToks`, the refinement of the tokenized state machine.

**Tokenized state machine** (`RwLockProofs` too; `ToksInv`). The invariants the source
states, by the same induction its `#[inductive]` functions do, plus `PermissionNeverTwice`.

**Pruning** (`CrateProofs`; `PruneInv`). That the traversal ends with the least closed set is
about its end; the invariant is about its middle. `NoneMissing`: what is processed has all
it needs among what is reached. The hard cases are the items that need two others: the test is made when
either is reached, so it succeeds with the later one. `NoneTooMuch`: what is reached lies in
every closed set that holds the roots. With an empty worklist the two give `PruningExact`, for
every crate. `BroadcastOnlySound` spans both prunings: `CallsMarked` (whatever a
processed item mentions is marked as reached by a call) and `OnlyBroadcast` (what the first
pruning marked is mentioned by nothing that is left, in the bucket's view or any other, nor by
what the conversions make of it). The theorems assume of a crate only what `WellFormedKrate` and
`Convertible` say.

`PruningTwiceLosesNothing` is about both prunings (`TwiceInv`). When the first one ends, what
is left is closed under the rules of the crate's scope (`FirstComplete`, with `FirstRules` rule by
rule). Those rules are the stronger ones: all bodies are seen, all groups are visible, and more is
revealed. The last of
these is a recursion over groups, so its lemmas compare two such recursions round by round.
The conversions keep it so. What they mention is mentioned by what they rewrite or is a
field's type, and that was kept by the first pruning, or it is a type that is brought in with
them. A new item meets each rule: a copy stands for a method and an implementation that are
left, so the type and the trait it asks for are. And a rule that needs two items, one
of which only the conversions bring in, asks for nothing that was dropped, except for what is `Late`.
That a copy is made whenever it is due needs that an overriding method is left when its
implementation and the method are; the mutant of `BucketLosesNothing` copies regardless.

From it: the bucket's roots are all left and what is left is closed for the bucket, so its
traversal, which stays in every closed set, stays in what is left; there the rules of the pruned and of the
unpruned krate agree, except for a member of a group that is not left, which must
be a lemma none of whose triggers is kept (`Useless`).

**Components and call graph** (`CrateProofs` too; `CrateInv`, with `ConnectInv` and `SortInv`
of `Scc` and `GraphInv` of `CallGraph`). That components are right is about the end of
Tarjan's algorithm; the invariant says what holds in the middle of a call. *Leads to* is
stated by closed sets (`Leads`): w is in every set that holds v and that no edge leaves.
`StackLeads`: a node on the stack leads to all above it, and to one below it, or itself, whose
call has not returned. `LowSound` and `LowComplete`: a call's `lowlink` is the
index of a node on the stack that it leads to, and it is no more than that of any node
on the stack to which an edge was followed since the call began. So where `lowlink` equals
`index`, what lies above on the stack leads to the node and back, and no edge leaves it but to
components that are complete: `Components`. These come out callees first, so `sort_sccs` finds
nothing to reorder and never calls itself more than one deep (`SortInv`).

From it: `SccsExact` (`ComponentsExact`), `SortedCalleesFirst` (`CalleesFirst`) and
`QuestionsAnswered` (`AnswersExact`), for every crate, of both graphs. The properties state
reachability by rounds of a growing set, the invariant by closed sets; that as many rounds as
there are nodes suffice is a pigeonhole argument over finite sets. `can_reach` may cut its search at
components before the target in the order since those lead only further down. The cycle
shown to the user is found and is a shortest one since the code drops from a level only nodes that
an earlier level had. `AddedEdgesSound` (`AddedEdgesLeadNotBack`, which no run checks) is what
remains true of the comment that `crate_added` refutes: no added edge closes a
cycle with the edges of the preliminary graph. `PipelinePrunes`: the pipeline implements the
specification of pruning, so what is proved of `Prune` holds in it. Beyond
`WellFormedKrate` and `Convertible`, these assume that a crate has finitely many items.

**Operation queue** (`QueryOpsProofs`; `OpsInv`). Retries and reruns are put at both ends of
the queue. `QueueOK` says what that leaves: at most one check of recommends clauses, then
exactly the operations of the component that have not been run, in their order, then reruns for
profiles. `AxiomsLast` is the order in which `handle_scc_component` has put them, `TallyOK`
relates the count of verdicts to the command lists that were run. From it:
`AxiomsNeverAssumedEarly`, `OperationsNeverLost`, `ErrorsNeverLost`, for every number of
functions and command lists, every option and every outcome.

**Expand-errors driver** (`QueryOpsProofs` too; `ExpandInv`). Identifiers are ordered
lexicographically (`Before`), and that is the order of the walk: all that has a result or an expansion
comes before the current identifier, and `LeftToAsk` says what comes after it. The
output is in the same order; the lemma about splicing says that lines put in
after their parent keep it so. From it: `OutputReadsAsTree` and `EveryLeafAsked`, for every
tree and both limits.

**Resolution inference** (`ResolutionProofs`; `SoundInv`). The heart is `VisitsOwed`: an equation
of the running analysis that does not hold belongs to a block that was never visited, is
queued, is being visited or is about to be queued. So an empty worklist means a solution
(`AnalysesSolved`); any solution is enough for soundness, since an execution follows the edges
the equations are about (`RunsWithin`, `InsertedSafely`). This gives `ResolutionsSound` for every
graph that is `WellFormed` and every place. `ResolutionsComplete` needs
more than the points that were inserted: a resolution may be on its way from one block to
the next, so `NothingForgotten` carries the set of points that were passed on.

A solution need not be the least one. `ExactInv` says that the analyses stay below what
paths do, and `AnalysesSayWhatPathsDo` that they end there. It is not true at once: the value
that an entry block starts with is more than any path gives until the block is first visited
(`StartValues`), and the proof needs that this happens before any of its successors is
(`FirstRound`). This holds because blocks are queued in the order of their creation and an
entry is created before what follows it (`EntryAssumption`, checked on every graph that
`ResolutionCfg` builds). What paths do is defined by rounds of a growing set; that they
reach the least solution after as many rounds as there are points is a pigeonhole argument
over finite sets.

**Validity loop** (`ValidityLoopProofs`; `LoopInv`). What the loop reports depends on which
labels the solver still checks, so the invariant follows them. `StackOK`: while a query is
open the solver holds it in one scope, with exactly the labels off that `assert_infos` says,
and at most the observer's scope above it. `OffExplained`: a label that is off was reported,
or comes after one that was. `ValidExplained`: when the solver has answered unsat, every
core of the query meets the labels that are off. `CandidatesOK` relates the model to the
label about to be blamed, `CountsOK` the counters to the round. From it: `VerdictsSound`,
`FailuresBlamed`, `EarliestFirst`, `BlameSound` and `ScopesAlwaysRestored`, for every set of
labels and cores, assuming only that the solver is sound.

**Scoped maps** (`ScopeMapProofs`; `MapInv`). The code keeps one flat map and what each scope
hid; the reference keeps a whole view per scope. The lemmas about `ViewOf` say how push, pop,
insert and replace change the view of *every* scope, rebuilt from the undo maps. `ProtectedOnce`
is why popping a scope may lift the protection of all its keys, `PositionsDistinct` why its counter
is a position nobody else has, although a second insert gives a key a new one, `EmptyBelow` why
only a key inserted twice in one scope outlives the last scope. The lemmas about a second insert say
which scopes below take the first value: those with no binding of the key between them and
the top. From it: `MapInvariant` and `MapImplementsScopeStack`, the refinement, for every set of
keys and values, every depth and every sequence of calls, also of callers that discard an `Err`.

Only model-checked: the liveness properties (`Terminates`, `PanicSurfaces`, `RequestEnds`,
`DropEnds`, `QueryEnds`, `ComponentEnds`, `InnerReturns`, `InferenceEnds`), since liveness under
fairness is out of the prover's reach; and that the graphs `ResolutionCfg` builds are
`WellFormed`, since it is written with recursive operators, about which nothing can be proved for
all inputs. Every invariant and every refinement that a passing run checks is also a theorem.

## 6. Findings

Three runs end in a violation on purpose: the property states what the code's own text says
and TLC shows a run of the code that does otherwise.

* `validity_listed` – a query that fails without a location (bit-vector, or no usable
  model) is counted as an error, but its function is not put in `func_fails`, from which
  the JSON output computes `success`.
* `ops_profile` – with `--profile`, two reruns of one function get the same profile file
  name and the second trips `assert!(!profile_file_name.exists())`. With
  `--expand-errors` as well, an expanded query that times out is rerun from the back of the
  queue, when its driver is gone, and the rerun panics with
  "report_expand_error_result expected driver". The property covers both.
* `crate_added` – an edge from a function to a trait implementation is added to the final
  call graph if the implementation does not depend on the function, which is looked up in
  the *preliminary* graph (`vir/src/context.rs:628`). With implementations I1 = {a1, a2} and
  I2 = {b1, b2}, where a2 calls b1 and b2 calls a1, both a2 → I2 and b2 → I1 pass the test,
  and together they close the cycle I1 → a2 → I2 → b2 → I1. `check_traits`
  (`vir/src/recursive_types.rs:1056`) then reports a cyclic trait dependency in a program
  without recursion, against the comment at `context.rs:601`. With the edges of the preliminary
  graph alone no added edge closes a cycle (proved, section 5). The code errs on the safe side:
  a correct program is rejected.

Two more disagreements are visible in the models. They are stated as properties that no
run checks; adding either to the invariants of `MCValidityLoop.cfg` or `MCQueryOps.cfg`
gives the trace.

* `NoteOnlyOnErrors` (`ValidityLoop`) – with `--multiple-errors 0` a query that *verified*
  is followed by the note that not all errors may have been reported (`verifier.rs`, after
  the loop of `check_result_validity`): the counter starts at zero and zero is the
  condition.
* `HeldTaken` (`QueryOps`) – an I/O error while a solver context is created leaves
  `verify_bucket` by `?` with errors still held in a `PanicOnDropVec`, which panics when
  dropped: the I/O error and the held errors are lost.

## 7. Not modelled

* *Translation* (Rust to VIR, VIR to AIR, AIR to SMT text, macros): syntax-directed and
  stateless; correctness is a relation between the semantics of two languages and needs
  induction over syntax.
* *Checks of single items* (modes, well-formedness, traits, erasure): guards with messages,
  or computations on rustc's data structures.
* *Invariant masks, buckets and user filters*: small algorithms, left in the plan (section 2).
* *In pruning*: the monomorphic types, `FnDef` types and `uses_…` flags collected on the
  way, and library functions that single expressions ask for by name.
* *In the conversions between the prunings*: how an expression is rewritten, other than by
  what it mentions afterwards; their errors, which end the run; the axioms for functions used as
  values, which are mentions of the function. What the conversions may mention is an assumption
  (`Convertible`), and what simplification adds is taken to be the same whether the crate
  was pruned before or not.
* *Before simplification*: the call graph of the krate that `simplify_krate` is given, built by the same code, which
  `check_traits` looks at and which the one of the result replaces.
* *In the call graph*: the nodes for spans, requires/ensures of trait methods, modules,
  crates and `FnDef`s, extension traits, the graph of datatypes, the termination check. The order
  of nodes follows the code only in part (spec functions and implementations first); no
  property depends on it.
* *In resolution inference*: closures, let-else, short-circuit operators, how places are
  computed from expressions, the asserts that mention `has_resolved`, the rewriting of the
  AST.
* *The interpreter* for `assert by(compute)`: recursion over expressions with
  arbitrary-precision numbers.
* *Front ends, cargo-verus, records, logs, profiles*: sequential file and process I/O.
* *Proof-mode libraries of vstd*: no run-time state; Verus proves them.
* *Vendored compiler crates, tests, examples, build tools*: not this program's own logic.
* *In the validity loop*: no property says that `--multiple-errors 0` does not search on, or that
  the search never runs past the limit.
* Inside modelled parts: the text of messages, timing statistics, unsat cores, Singular,
  solver options; `PROJECT.json` says for each component what is left out.
