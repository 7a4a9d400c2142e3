# TLA+ models of the KTIR CPU interpreter

`ktir_cpu` executes KTIR kernels on a CPU: it simulates a grid of cores, each
with a 2 MB LX scratchpad, that share one HBM and exchange tiles. This directory
holds models of its core, TLC configurations that check them on small instances,
and TLAPS proofs. Paths and lines are relative to `ktir_cpu/` unless they start
with `docs/` or `tests/`.

Contents: [inventory](#inventory), [modules](#the-modules), [runs](#the-runs),
[disagreements](#where-the-code-and-its-documents-disagree),
[proofs](#the-proofs), [what is not modelled](#not-modelled-and-only-checked),
[plan](#plan).

## Inventory

| part | state | operations | hard part | what makes it correct |
|---|---|---|---|---|
| grid scheduler: `GridExecutor.execute_with_communication`, `CoreExecutionStack` (`grid.py`) | locals `messages`, `stacks`, `waiting`, `results` of one call; the `_send_fn` hooks each core keeps between calls | set-up loop, `_advance`, `_try_deliver`, `_enqueue`, `_pop` | generators of all cores interleave at every receive; queues are untagged; a call may end by an exception half-way; the hooks outlive the call | per-pair FIFO delivery, nothing lost, a deadlock is reported exactly when there is one, the outcome does not depend on the order the cores are stepped in |
| ring reduce: `RingReduceBackend`, `CommPlan` (`ops/comm_ops.py`), `inter_tile_produce` / `inter_tile_reduce` (`dialects/ktdp_ops.py`) | accumulator, tile to forward, round, bytes of one generator; the future that joins produce to reduce | `_find_tile_group`, plan, N - 1 rounds of send and receive, mask | the origin of a tile is computed from the round, not carried; a core may be a reduce ahead of its neighbour | each consumer folds each partial of its group exactly once, none of another reduce; no deadlock |
| SSA scopes and LX accounting: `CoreContext` (`grid.py`), `LXOptions` (`memory.py`) | `_scope_stack`, `_tile_refcount`, `_uncharged_tiles`, `lx.used`, `lx.next_ptr`, watermark stack | `set_value`, `get_value` (consumes on last use), `push_scope`, `pop_scope`, `clear_values` | aliases, overwrites, last uses and pops in any order; tables keyed by `id()`; an exception half-way through a bind | refcounts and `lx.used` are those of the live bindings; capacity is respected; outer scopes survive a region |
| allocation store: `_AllocStore`, `_find_allocation`, `_read_flat`, `_write_flat` (`memory.py`) | `{base: array}` and a sorted-key cache | read, write, lookup | the cache is rebuilt on a change of length only | a lookup finds the array that holds the address |
| HBM and tensor arguments: `HBMSimulator`, `execute_function` (`memory.py`, `interpreter.py`), `MemoryOps.load` / `store` (`ops/memory_ops.py`) | the store, `next_ptr`, the argument table | allocate, write, load, store (contiguous and scattered), read back | accesses that run past a tensor; a strided store writes back a whole span | each argument is an array of its own |
| LX scratchpad memory: `LXScratchpad`, `_write_to_lx` | the store, `next_ptr` | staging by loads, memory views in LX, scopes, `clear` | staged addresses are reused, views are reserved by nobody | a view reads back what it stored |
| interpreter: `KTIRInterpreter` (`interpreter.py`) | the module, `ExecutionEnv`, what is on the Python stack | `_execute_op`, `execute_region`, result binding, in-place ops, latency wrapper | regions that yield to the scheduler half-way; objects that share a buffer | the names an op fetches are there and hold what MLIR says |
| control flow: `control_ops.py`, `scf_ops.py` | iter_args across iterations | `scf.if`, `scf.for`, plain and with comms | the body's scope is popped before iter_args are rebound; a literal init is copied | loop-carried values survive, scopes balance, loops leave nothing behind |
| use counts: `build_use_counts` (`parser_utils.py`) | a table from names to counts | one pass per region | a use it does not count makes a later fetch fail | a name counted once is fetched at most once per scope |
| views, access tiles, indirect access: `ops/memory_ops.py`, `ktdp_ops.py`, `ir_types.py` | none (values); the memories they act on | construct, load, store, indirect load and store; contiguous, strided and coordinate paths | boundary arithmetic, three ways to count sticks, staging beside LX views | an access moves the elements it names and no other; stick counts exact |
| distributed views: `distributed_load`, `distributed_store`, `InstantTransferBackend` | none (values) | split of an access over partitions, remote LX reads | partitions that overlap, leave gaps or are no boxes; another core's stores in between | every element from a partition that holds it |
| affine sets and maps: `affine.py` | none | evaluation, enumeration, box form | bounds | box form equals enumeration |
| latency tracker: `latency.py` | counters per core, active cores | `record_op`, `reset`, reports, roofline | traffic found through whichever carrier; reports kept over a reset | bytes are the sticks moved; ratios within one; reports final |
| text parser: `parser.py`, `parser_utils.py` | the text, the lines of the op being collected | functions, ops and regions, op by op | where an op ends and what a brace opens are guessed from the lines around | the tree is what was written |
| other parsers: `parser_ast.py`, `mlir_frontend/` | none after a parse | affine texts; an external MLIR binding | formats | - |
| arithmetic: `arith_ops.py`, `math_ops.py`, `tensor_ops.py`, `linalg_ops.py` | none | NumPy | floating point | - |

How they meet: `execute_function` places the arguments in HBM and calls the
scheduler, which runs one generator per core. The generator executes operations;
each binds its result in the core's scopes, loads and stores go to HBM or LX, and
an inter-tile reduce returns a generator whose receives are yielded to the
scheduler. The cores run in one thread, and control moves only at a receive.
Each op that returns is recorded by the tracker on its core.

## The modules

`MessageNetwork` is the abstract specification of cross-core communication. A
client is a *program*: for each core the sequence of sends, receives, local steps
and raises its generator makes. Cores step in any order, a receive takes the
oldest tile of its pair, and a call ends with results, a deadlock or an exception.
It has no run of its own: `GridScheduler` is shown to implement it.
`Outcome` computes from the programs alone where every core must end.

`GridScheduler` is the loop of `execute_with_communication`. `Attach` is one
round of the set-up loop, `Deliver` one successful `_try_deliver` (lowest
deliverable core, then start over), `Return` and `RaiseDeadlock` the two ends of
`while stacks`. A resume is cut into `RunSend`, `RunWork`, `Park`, `Complete` and
`Raise` of the core holding the thread (`running`), so the state between two sends
of one resume is visible. The four dictionaries are the variables `messages` (an
absent key is an empty queue), `stacks`, `waiting`, `results`; `bound` is the call
whose `_send_fn` a core holds, and a send made through the hook of an earlier call
goes to queues nobody reads.

`RingReduce` is one kernel of `Ops` produce and reduce pairs with any groups, its
cores interleaved freely over FIFO channels to the right neighbour. `Produce`,
`Enter`, `SendOn`, `Receive` and `Leave` are the handler and generator steps in
their order; `ProduceRaises` and `LeaveRaises` the exceptions. A fold is the
sequence of the tiles folded, so a double or missing contribution shows.
`RingOnScheduler` instantiates `GridScheduler` with the steps of this ring, for one
call of the executor, and maps its state to `RingReduce`. The scheduler's tiles carry
no payload, only the step that sent them; what one stands for is read off that
position: k rounds into a reduce a core sends the partial of the core k places to its
left. That this is what the ring forwards is not assumed: `SendOn` of `RingReduce`
sends what the core took in the round before, and the mapping must satisfy it.

`LxScopes` is one `CoreContext`. Between two calls of it the operation handlers
hold references (`held`): they make tiles (`Compute`, `Load`, `BindLiteral`), bind
what they hold under any name, fetch, drop, and open and close regions. A tile is
its Python id, and the id of an unreachable tile is used again. A `MemoryError`
leaves through the scopes `_run_combiner` opened (`Unwind`); its other scopes are
not popped by the code and are not popped here.

`AllocStore` holds the store operators, where an address counts elements; it has
no state of its own. `HbmMemory` is HBM over one `execute_function`: the argument
loop (`Place`), the kernels' accesses through pointers that start inside a tensor
and may run past its end, contiguous or scattered. `TensorMemory` is what that
promises: each argument an array of its own.

`SsaKernels` says what MLIR's verifier guarantees of a kernel (`WellFormed`): how regions
nest, the operands and results of each kind of op, terminators, and that a name is defined
where it is used. The interpreter relies on it and checks none of it.
`SsaMachine` is one core of the interpreter executing a structured kernel. Its
frames are the regions on the Python stack; `EnterFor`, `Iterate`, `EndIteration`
and `ExitFor` are the steps of `ControlOps.for_op`, `EnterIf` and `ExitIf` those of
`if_op`, `Park` and `Resume` the suspension of either inside an op of the body. A
tile is an object over a buffer, since reshapes share buffers and `linalg.matmul`
accumulates in place; what a buffer holds is the term that computed it. Beside the
machine runs the meaning of the kernel (`env`), in which names stand for terms and
nothing is shared. `UseCount` is `build_use_counts`, `Fetched` is `get_value` with its
consumption, `Accumulator` is `_accumulate_inplace`, `Bound` the binding of results.

`AffineSets` holds the operators of `affine.py` and `parser_ast.py` that decide
which elements an access names: evaluation, enumeration, the box of a set of
constraints (`ParseSet`, `Uppers`), intersection. `TileAccess` builds the construct
handlers from them and has one action for a load and one for a store, since none
of these ever yields. `tensors` is what each view means, an array; `mem` are the
memories. A load takes the path the handler takes: contiguous, strided (the span
read and picked), by coordinates, distributed by boxes or by points, indirect by
runs. Every core stages what it loads at its `lxNext`.

`Latency` is `LatencyTracker` and `LatencyReport` with the calls the interpreter
makes. `objects` are the counter objects, which a report shares; `Reset` drops the
table and not the objects. Costs are whole ticks, `Scale` to a cycle, a multiple of
every rate, and a ratio is a pair, so nothing is rounded. Beside the counters, `moved`
counts the HBM sticks the ops of a run touched on each core, and `mixed` the LX bytes
that views over HBM and LX partitions added to the memory counter; no step of the
tracker reads either.

`KtirParser` reads a text token by token in lines: `NextHeader` finds a function,
`ReadBlank`, `ReadLine` and `ReadRegion` are the three branches of
`_tokenize_operations`, `EndBody` parses the ops of a body (`ParseOperation`) and queues
their regions, `AddFunction` puts the tree together. `ParseBody` has the general parser
and those of the fifteen patterns in `Registry`, out of the 35 the dialects register;
the others (`arith.constant`, `linalg.fill`, most of `tensor`, the distributed view and
the indirect tile, ...) are not modelled, and no text names their ops. The parsers of
`ktdp` resolve an `#alias` in an attribute, the general one keeps its name. `MCKtirParser` writes the texts and, beside them, what they mean.

The definitions named `X_Y` that precede a definition `X` are faulty variants of
it: each is a mistake this code could contain, and the property that detects it is
listed in `PROJECT.json` under `mutants`.

## The runs

| run | instance | shows |
|---|---|---|
| `GridScheduler_three` | 3 cores that send and receive up to twice each; 2 that also work and fail, up to 3 steps; 2 calls | outcomes do not depend on the order of the cores; tables partition the cores, FIFO, nothing lost, no false deadlock, the loop implements `MessageNetwork` (`NetSpec`), every call ends |
| `RingReduce_three` | 3 cores, 2 reduces, groups that partition, overlap or miss a core, with and without tracker | each arrival is from the origin the code computes; results are folds of the group; no deadlock; queues drain; every reduce returns |
| `RingOnScheduler_four` | 4 cores, 3 all-reduces | each scheduler step is a step of the free ring; the call returns |
| `LxScopes_books` | 2 tile ids of 1 and 2 units, capacity 2, 2 names of which one is used once, 3 scopes, bump pointer up to 3 | refcounts and `lx.used` are those of the bindings; live tiles fit; only literals are free; regions leave outer scopes alone; staged data does not overlap |
| `HbmMemory_args` | 2 tensors of 1 to 3 elements, stick of 2 | cache sound; arguments apart, and no load sees two of them; implements `TensorMemory` |
| `SsaMachine_kernels` | a loop of up to two trips and steps of 0 to 2 with two iter_args and two ops from reshape, matmul, reduce, compute, receive, branch, nested loop | fetches succeed; each operand holds what its name means; loops leave no tile; literals never change |
| `TileAccess_views` | 2 cores, 9 views (interleaved, strided, distributed over HBM and LX with partitions that are no boxes, overlap or leave a gap, local LX, index views), 21 accesses, sticks of 4 elements, two accesses in a row | memory holds the tensors; loads return them in the kernel's order; stick counts are exact |
| `Latency_reports` | 3 cores, grids of 2 and 3, 13 ops of every category, a load over HBM and LX partitions among them, 3 ops in all, 2 runs, 1 report | memory bytes are the sticks moved and the LX parts of such loads; ratios within one on cores without such a load; reports do not change |
| `KtirParser_texts` | 4,901 texts: 68 statement forms before and after 12 simple ones, three kinds of gap | the tree is what was written; wrong texts are refused |

Why the bounds are enough. The scheduler's tables treat cores alike but for
their order, so two cores show every pairwise order and the third the case where a
core waits on one neighbour while another sends to it; two steps a core suffice for
a cycle of waits, three for a queue of two tiles and a receive behind it; two calls
for what survives a call. The ring needs three cores for a tile that is forwarded and
two reduces for one to run ahead of another. For the books, two ids in two names over
three scopes give every alias, overwrite and shadowing that involves a pair; the
capacity is met exactly, exceeded by one bind, and not. The `LxScopes` run takes the
default `LXOptions`, `alias_dedup` and `consume_last_use` on (`memory.py:98-140`). The
stores meet every relation of an access to the ends of two neighbouring arrays.
A loop of two trips has a first, a following and a last iteration, and two iter_args
can be exchanged or fed into each other. Two accesses are a store and what it
disturbs, or two loads that stage; tiles of two by two with sticks of four begin and
end at every place in a stick. Three ops fill two of a core's counters and another
core's; two runs show what a reset leaves. Where an op ends depends on the line
before and the line after, so every pair of statement forms is what can differ;
regions are nested two deep in some of the texts.

Every bound is a CONSTANT: `MaxCalls` and the program length for the scheduler,
`Ops` for the ring, `MaxDepth` and `MaxPtr` for scopes and staging, `MaxTensors`
and `MaxLen` for HBM, `MaxTrip` for loops, `MaxOps` for accesses and for the ops of a
run, `MaxRuns` and `MaxReports` for the tracker, `NumTexts` for the parser. Deadlock
checking is off where the system may stop (a kernel that ended or raised, a parse
that returned).

Fairness. `GridScheduler` assumes `WF_vars(Drive)`: the loop is one Python thread
that goes on as long as a call is under way, and nothing else may stop it; making a
call is not fair. `RingReduce` assumes weak fairness of the whole next-state relation
and not of each core: the scheduler resumes some core while one can be resumed, and
no core can be neglected for ever because each has finitely many steps. The other
modules state safety only: what they model are sequential calls that return.

Restrictions on the environment. The kernels of `SsaMachine_kernels` are `Disciplined`, and
TLC checks that they then satisfy `ConsumesSafely`, `AccumulatesSafely` and `KeepsLiterals`, of which
the theorems speak:
`matmul` accumulates into a literal or into a name without another use that is not
itself a reshape or a reduce, a region yields distinct tiles of its own, and the init
of a reduce is not used exactly once elsewhere. Outside these the code does diverge
from the meaning MLIR gives a kernel: an in-place matmul changes every name for its
accumulator; and `linalg.reduce` fetches and rebinds its `outs` through an attribute
that `build_use_counts` does not count (`linalg_ops.py:200`), after which the one
counted use finds another tile and the assertion of `_execute_op`
(`interpreter.py:241`) or a `KeyError` ends the run. `TileAccess_views` takes bounded sets,
memories that are allocated throughout, LX views below the staging pointer, and equal
initial contents for the two copies of an element that partitions share: nothing in the
code makes partitions disjoint (`docs/gap_analysis.md:32`), a store writes every copy
and a load takes the last. `KtirParser_texts` follows the rule documented
at `parser.py:417-423`: after an op without a result type comes a blank line or a
line that assigns one.

## Where the code and its documents disagree

Each of these three is a run whose property TLC refutes.

- `RingReduce_tracked`: with a latency tracker, the `None` a non-consumer's reduce
  returns reaches `_comm_size`, which raises; `comm_ops.py:187-190` and `242-245`
  say a non-consumer runs the protocol and returns `None`.
- `SsaMachine_reshaped`: `_accumulate_inplace` copies a literal before it accumulates
  into it, but recognises it by `id`; a reshape of the literal is another object over
  the same buffer (`tensor_ops.py:102-144`), and the literal changes, against
  `linalg_ops.py:310-313`.
- `KtirParser_else`: with `} else {` on a line the rest of that line is appended to the
  op's text (`parser.py:509`), the else block with it, and its operations are lost
  without an error, against `parser.py:62-65`; `scf_ops.py:53` executes a second region.

Others that the modules show when their instances are changed as said here:

- `_find_tile_group` raises for a core in no producer set (`ProduceRaises` of
  `RingReduce`); `ir_types.py:498-503` says it runs the delivery op with the identity.
- `set_value` writes the binding before `_charge_lx` raises, so the `pop_scope` in
  `_run_combiner` fails with `KeyError` (`Unwind` of `LxScopes`), which replaces the
  `MemoryError` `docs/lx_tracking.md:5-6` promises.
- With 0 in `Lengths` of `HbmMemory` (and without `LengthsAssumption`, which excludes
  it), the tensor after a zero-size argument gets the same address and is truncated to
  nothing, against `memory.py:186`.
- With an LX view in `TileAccess` at or above `Staging`, `_write_to_lx` stages over it,
  against `memory_ops.py:408`.
- With a traversal order on a tile of a distributed view, `LoadsReturnTensors` fails:
  `distributed_load` and `distributed_store` ignore `access_tile_order`, which
  `docs/gap_analysis.md:34` says load and store apply.
- A load of a view over HBM and LX partitions costs the time of its HBM part and
  records the bytes of both (`latency.py:329-337`), which the report compares with the
  HBM bandwidth: its bandwidth ratios exceed one, against `latency.py:231-241` and
  `docs/latency.md:276` and `283`. `Latency_reports` contains such a load.
  `MemoryIsHbmTraffic` says exactly which bytes are added, `RatiosAreFractions` bounds
  the ratios of memory where no core has used one (without that condition TLC refutes
  it).

Smaller ones: `detach_scheduler` is never called although
`grid.py:101-103` says it is (the next call attaches afresh, which `NothingLost`
relies on); with `alias_dedup` off an aliased literal is forgotten at its first
release and a later one lowers `lx.used` below what was charged (`grid.py:317-320`);
an overwrite or last use lowers `lx.used` and leaves the bump pointer, which
`grid.py:213-214` says are in lockstep; `scf.while` has code (`control_ops.py:317-352`)
and no handler; the point path of a distributed access does not bound an access set
that is no box by the tile's shape, against `memory_ops.py:669`; an indirect load with
an LX parent and an HBM index view raises in `_data_size`, where the store does not;
`roofline` divides by zero if every op was free.

In the text parser: two functions in one text both look for their body from their
own header, and the first gets the last one's body and grid (`parser.py:149-189`); a
comment with an unbalanced brace inside a body makes the function vanish, since the
scan for the body precedes the stripping of comments; `iter_args` spread over lines
that begin with `%x =` split the op; a written-out `affine_set<...>` as the last attribute
of `inter_tile_produce` counts as its type; the patterns of `dispatch_parser` are
searched anywhere in a text, so an op glued to the next may become that one.

## The proofs

Eight modules hold theorems: seven that extend the module they are about, and
`CommonLemmas`, which these extend. `RingOnScheduler_proof` holds the scheduler's proofs
and, after them, those of the ring on it; `SsaMeaning_proof` continues `SsaMachine_proof`.
A theorem holds for every value of the constants that satisfies the named assumptions of
its module, so for every number of cores, tiles, arguments and ops, and for every bound:
the bounds are parameters like any other.

`CommonLemmas` has the facts several proofs need. The provers cannot do induction over
data, because the induction theorems of the library take an operator as parameter. The
set of counterexamples of one statement is a set, though, and
the well-foundedness of the naturals says that a set in which each number leads to a smaller one
is empty (`NoDescent`; `NoSetDescent` for finite sets). From these come the recursion
equation of a recursive function (`FoldExists`), sums over finite sets (`SumFacts`, `SumAdd`,
`SumBounded`), maxima, rounding up to a multiple and exact division.

### The scheduler

| theorem | module | property |
|---|---|---|
| `TypeCorrect` | `RingOnScheduler_proof` | `TypeOK` |
| `BookkeepingCorrect` | | `SchedulerBookkeeping` |
| `NoFalseDeadlock` | | `DeadlockIsReal` |
| `ChannelsAreFifo` | | `InOrder` |
| `NoTileIsLost` | | `NothingLost` |
| `ImplementsNetwork` | | `NetSpec`: every step maps to a step or a stutter of `MessageNetwork` |
| `OutcomesAgree` | | `OutcomeIsScheduleIndependent` |

For every set of programs. The inductive invariant is
`TypeOK /\ SchedulerBookkeeping /\ ThreadIsFree`. `SchedulerBookkeeping` alone is not
inductive: that a resumed core is not at once parked needs to know that outside a call
nobody holds the thread, which is `ThreadIsFree`. FIFO order needs that what is queued was
sent by this call (`QueuedIsSent`), and the refinement uses both.

`OutcomesAgree` is the argument of deterministic dataflow networks. Call a position of all
cores *closed* if no core can move there. The pointwise least closed position is closed
(`OutcomeIsLeast`), and no step leads past a closed one (`WithinClosed`): a core that
stands where it would leave it waits on an empty queue. A call that ends stands at a closed
position, hence at the least, which the programs determine. For this the queues must hold
exactly the tiles between what was taken and what was sent (`QueuesAreCounted`); what a receive
returned is then the tile with its number (`AnswersAreDetermined`), and `VerdictIsRight`
ties the verdict to where the cores stand.

### The ring

| theorem | module | property |
|---|---|---|
| `TypeCorrect` | `RingReduce_proof` | `TypeOK` |
| `ArrivalsCorrect` | | `ArrivalIsFromItsOrigin` |
| `ResultsCorrect` | | `ResultsAreGroupFolds` |
| `DeadlockFree` | | `RingIsDeadlockFree` |
| `QueuesDrained` | | `QueuesDrain` |
| `RingIsImplemented` | `RingOnScheduler_proof` | `SchedulerImplementsRing` |
| `CallNeverFails` | | the call ends neither in a deadlock report nor in an exception |

For every number of cores and reduces and every family of groups. The invariant `RingInv`
numbers the tiles: the k-th of the r-th reduce is `(r - 1) * (N - 1) + k - 1` on the way of
every core, and the queue of a core holds the numbers from the next it takes to the
last its left neighbour sent, each with the contribution of its origin (`QueuesAreNumbered`).
None of the properties is inductive without it: that the head of the queue is the tile of
this reduce and this round follows from its number, as tiles have no tag.
`RingStates` says what a core in round k holds, `PhasesAreNested` that only a core past
produce is in a group, `OutsAreCounted` that one result was returned for each reduce passed.
Deadlock freedom follows from the numbers: of all cores take one that has taken the fewest
tiles. If it waits on an empty queue, its left neighbour has sent no more than that, so it
has taken no more either, and since it waits for nothing further it has returned: but a core
that returned has taken more.

The second part of `RingOnScheduler_proof` shows the refinement, for every grid size and
number of all-reduces. `TilesAreNumbered` joins the scheduler's invariant: the n-th tile a
core sends, the n-th in the queue and the n-th its neighbour takes are one, written as the
step that sent it. With it the ring state of a core is a function of its position and of
what it took (`View`), and there is one lemma for each kind of step (`ProduceStep`,
`EnterStep`, `SendStep`, `ReceiveStep`, `LeaveStep`), from which every step of the
scheduler is a step of the ring or leaves the view as it is (`RingMoves`).
`CallNeverFails` repeats the argument for deadlock freedom with the scheduler's own
report: by `DeadlockIsReal` it is made only when every core has returned or waits on an
empty queue. Both theorems, and no other, are under the condition `RunsTheRing`: one call
of that kernel, which the run's configuration is.

### Scopes and books

| theorem of `LxScopes_proof` | property |
|---|---|
| `TypeCorrect` | `TypeOK` |
| `BooksCorrect` | `BooksMatchScopes` |
| `FreeTilesAreLiterals` | `OnlyLiteralsAreFree` |
| `LiveTilesFitWithDedup` | `Dedup => LiveTilesFit` |
| `StagedDataIsSafe` | `StagedRangesNest` |
| `OuterScopesAreSafe` | `OuterScopesAreKept` |
| `PopNeverRaises` | while no exception is on its way, `pop_scope` finds a count for each tile it releases |

For every set of names and of ids, sizes, capacity and both values of each option.
`LiveTilesFit` is proved with `alias_dedup` only; without it an aliased literal is released once too
often (see above), so `lx.used` is no bound on what lives. `LxInv` relates the books to a
*view* of the scopes, the function from a tile to its bindings (depth and name): the
code releases the tiles of a scope one at a time and overwrites before it releases, so
the books pass through states that match no stack of scopes but do match a view (`Matches`).
`MarksRise` orders the watermarks and the top of the bump pointer, without which a staged range could
lie above a mark that a pop returns to. Both are claimed only while no exception is on its way,
since `set_value` leaves a binding without a charge behind it when it raises.

### HBM

| theorem of `HbmMemory_proof` | property |
|---|---|
| `CacheNeverStale` | `CacheIsSound` |
| `ArgumentsStayApart` | `ArgumentsAreApart` |
| `ImplementsTensorMemory` | `ImplementsTensors`: the initial states and every step |

For every number and length of arguments and every stick size. `HbmInv` says that the arguments
lie one after another below `nextPtr` (`Placed`) and that the store holds one array for
each and nothing else (`Holds`); a cache entry of the store's present length lists its present keys,
because the store only grows. Then the largest base at or below a pointer into an argument is
that argument's (`FindArgument`), on which the properties rest. Neither property is inductive:
both need the order of the addresses. `LengthsAssumption` (no argument without elements) is
necessary, as said above.

### The interpreter

| theorem of `SsaMachine_proof`, the last of `SsaMeaning_proof` | property | for every kernel that is |
|---|---|---|
| `TypeCorrect` | `TypeOK` | well-formed |
| `LoopsKeepTheirTiles` | `LoopsDoNotLeak` | well-formed |
| `OperandsAreFound` | `OperandsAreThere` | well-formed and `ConsumesSafely` |
| `LiteralsAreKept` | `LiteralsNeverChange` | well-formed and `KeepsLiterals` for some sets of names |
| `OperandsKeepTheirMeaning` | `OperandsMeanTheirNames` | well-formed, `ConsumesSafely` and `AccumulatesSafely` |

For every set of kernels, of any size and nested to any depth, every bound of a loop and
step operand, and whichever branches are taken. `KernelsAssumption` (each kernel is
`WellFormed`) is what MLIR's verifier ensures. The other three conditions are about
the kernel's text, and the run checks that all of its kernels satisfy them
(`MCKernelsAssumption`).

`TypeInv` says how the Python stack and the scopes belong together: each region is one its
parent's op owns, at the op the parent waits in (`FrameOK`), the scopes are those of the
regions but for a loop at its head (`ScopesMatch`), a region has yielded as many tiles as
its op has results (`YieldsSoFar`), only "i" stands for a scalar and what is uncharged is
bound (`CoreOK`). None of this is inductive alone.

A loop does not leak because of what its rebinding keeps: `LoopInv` counts the charged tiles
held outside the names the loop rebinds, plus one for each such name, and says they were
no more when the loop started. A tile may be held by several names, and a name may hold a literal;
so the count is of tiles and not of bindings, and the proof is that no step below the
loop's scope adds to it.

`OperandsInv` says that in every block from `main` to the innermost region each name in
scope is bound, or is used once and was used by an op already past (`CoverOK`). This needs
that a scope binds names of its block only (`LocalOK`), since `get_value` consumes in the
topmost scope whatever the block the name belongs to; and that the one use of a name
cannot be met again before the name is bound again. `ConsumesSafely` is necessary for it.
An init of `linalg.reduce` is fetched through an attribute and not counted as a use, so
one other use elsewhere is taken for the last; and a name with one use that is defined in
two blocks may be bound twice when that use is met, when consuming the inner one uncovers
the outer one, and the assertion at `interpreter.py:241` compares with the wrong tile.

`LiteralsInv` divides the names: those of `L` may stand for a literal and those of `V` for a
reshape of one. What a name is bound to follows that division (`May`), and so does what a
region has yielded with respect to the names that will receive it (`Pending`). A
literal's buffer is then never under a tile that a matmul accumulates into, other than the
literal itself, which is copied. `SsaMachine_reshaped` shows that the condition is needed.

`MeantInv` is about what can be *seen*: a region sees a binding of a name (`Sees(core,
frames, status, d, n, e)`: region d, name n, scope e) if the name is in scope where the
region stands and its one use, if it has only one, is not past. A region that waits in an
op, for a region of the op or for the scheduler, sees what is in scope at that op; a loop
at its head sees nothing. Each binding seen holds what the name means there (`MeaningOK`).
What keeps this true under an accumulation in place is `Apart`: of two bindings seen, one
that is no alias (no result of a reshape or a reduce) and holds no lasting literal shares
its buffer only with an alias that is seen where the name is in scope, and only if some
reshape or reduce takes the name. A matmul accumulates into a literal, which is copied, or
into a name without alias whose one use this is; so no other binding that is seen
afterwards is over its buffer (`InPlaceMeant`). Tiles that are not bound at the moment
need the same: the values a region has yielded and those a loop goes round with
(`ValuesOK`), and the tile a parked op will bind (`ParkOK`), are over buffers that nothing
seen shares, unless they are lasting literals. `LitsBound` says that a name which only
constants define stands for a literal, so that the guard of `_accumulate_inplace`
recognises it; `BindsOK` that the bindings this relies on are made in the order of the
text: a region has bound the results of the ops it has run, a lasting literal those of
`main` only, and a loop's results are given meaning in the surroundings it began in. The
proof has one lemma for each step; those that bind are instances of `NewValueMeant` (fresh
tiles), `ReshapeMeant` and `ValueMeant` (tiles yielded), those that open or leave regions
are `BranchMeant`, `LoopMeant`, `IterateMeant`, `YieldMeant`, `EndMeant` and `LeaveMeant`.
The restrictions of `AccumulatesSafely` have reasons in the code: an accumulator with
another use is changed under that use, and a tile yielded twice is two iter_args of one
buffer, which the next trip's matmul changes together.

### Latency

| theorem of `Latency_proof` | property |
|---|---|
| `TypeCorrect` | `TypeOK` |
| `MemoryCorrect` | `MemoryIsHbmTraffic` |
| `ReportsStayFinal` | `ReportsAreFinal` |
| `RatiosCorrect` | `RatiosAreFractions` |

For every hardware whose rates divide `Scale` (`LatencyAssumption`, a choice of the unit of
time) and every set of ops of the categories (`OpsAssumption`). `LatencyInv` adds to
the type that the counters of a run that goes on are in no report taken (`ReportsAreApart`),
and that each counter object accounts for what was recorded on it (`BooksAreKept`): in every
category the ticks are at least those the flops take at the peak of the unit, and those of
memory at least those the bytes take at the core's share of the bandwidth. The ratios are not
inductive because an op changes numerator and denominator; with the books they follow by summing
inequalities over categories and cores (`ChipFits`, `CoreFits`, `MeanFits`).

## Not modelled, and only checked

Checked by TLC and not proved:

- `EveryCallEnds`, `EveryReduceReturns` and `KernelReturns`, which are liveness, out of
  TLAPS's reach.
- The properties of `TileAccess`, whose argument is arithmetic on strides and boxes case by
  case rather than an invariant of many steps: each action is a whole access, compared with
  its meaning element by element.
- The properties of `KtirParser`, which has recursive operators.

Left out: floating-point arithmetic, the characters of texts and the parsing of
affine expressions (`parser_ast.py`), the MLIR frontend (a walk over an external
binding), formatting, and the tables of types. `CommPlan.deps` is built and never read
by the one backend there is. Accesses whose element size is not that of the array
they fall in are left out of `AllocStore`, the eager eviction of the key cache by
`LXScratchpad.clear` with it. `SsaMachine`, `TileAccess` and `Latency` are one core, one
memory system and one tracker each; their composition with `GridScheduler` is by the
steps they leave to it (a parked op, a remote read, a recorded op), not as one model.
The list with reasons is in `PROJECT.json`, `components`.

## Plan

Modelled and checked: the scheduler, the ring and its composition with the scheduler,
scopes and books, the allocation store and HBM, the interpreter with control flow, views and
accesses, the latency tracker, the text parser. Proved: every safety and refinement
property of these but for those of views and accesses and of the text parser, which TLC
checks, as it does liveness.

What could follow: `TileAccess` with views and strides as parameters, of which the
staging pointers (`TypeOK`) and the stick counts are within the provers' arithmetic; the
composition of `SsaMachine` with `GridScheduler`, in which a parked op is a receive.
