# CacheIR: a verification development in TLA+

CacheIR compiles transformer checkpoints to a graph IR and runs the compiled
artifact on a CPU or CUDA runtime, behind a continuous-batching scheduler and an
HTTP server.  This directory holds TLA+ models of the parts of it that keep state
and are hard to test, configurations that check them with TLC, and theorems that
TLAPS proves for every value of their constants.

Every definition is translated from the Python source; `PROJECT.json` ("map")
names the lines each one stands for.

## 1. The system

| component | source | state it keeps | operations | what must hold |
|---|---|---|---|---|
| Scheduler | `cacheir/runtime/scheduler.py` | `_pending`, `_paused`, `_cancelled`, `_submitted_at`, `_arrival_order`, `metrics`; in a call of the loop: `active`, `results`, `ready`, `survivors` | `submit`, `submit_many`, `cancel`, `run_until_complete` | no request lost or answered twice, `max_batch_size` respected, exact token counts, order within a priority, everything eventually answered |
| HTTP server | `cacheir/runtime/server.py` | one template runtime, one scheduler, counters | completions, chat (also streaming), batch completions, metrics | every accepted prompt is answered, once; generations do not mix |
| Paged KV cache | `cacheir/runtime/kv_cache.py` 32-135 | arrays and page table of each layer, `_next_page_id`, `spilled_pages` | `append`, `load_prefix`, `snapshot_prefix`, `clear` | pages tile the tokens, ids unique |
| Spillover | `kv_cache.py` 138-260 | the policy, the cost model's `page_bytes` | `apply`, `resident_page_budget` | the budget of resident pages is kept, older pages spilled first |
| Prefix cache | `kv_cache.py` 262-307 | an LRU dictionary of snapshots, hit and miss counters | `put`, `longest_prefix` | snapshots equal a full prefill, least recently used entry evicted |
| CPU runtime | `cacheir/runtime/cpu.py` | one KV cache per session; weight store, tokenizer and prefix cache shared by forks | `fork`, `run`, `prefill_tokens`, `generate`, `remember_prefix`; `WeightStore.get`, `get_quantized` | the model sees exactly the prompt and the generated tokens; a weight is the one in the file |
| CUDA runtime | `cacheir/runtime/cuda.py`, `backends/triton_kernels.py` | page slots, pools and markers shared by forks, weight caches, KV tensors per session | `append`, `allocate`, `write_page`, `clear`, `run`, `run_decode_batch`, `run_prefill_batch`, `load_prefix`, recovery from running out of memory | no slot has two owners, the pool holds what the arrays hold, a batch attends as its sessions would alone |
| IR, artifact | `cacheir/ir.py`, `runtime/artifact.py` | graphs, types, traces | `validate`, `graph(mode)`, `save_bundle` | definitions before uses |
| Importers | `importers/hf.py`, `onnx.py`, `stablehlo.py`, `compiler.py` | none | a model on disk becomes a logical graph | names, shapes and tied weights right |
| Compiler | `cacheir/compiler.py`, `passes/*.py` | a graph, rewritten pass by pass | fourteen steps of thirteen passes, per mode | the meaning is kept, types are true, live values share no buffer, the schedule is the graph |
| Quantization, GGUF | `cacheir/quantization.py`, `importers/gguf.py` | packed weights; a file reader | packing and unpacking, byte layout, block decoding | round trips, sizes, alignment, one weight on both devices |
| Everything else | back ends, kernels, tokenizer, hardware detection, command line, MLIR text | none | input, output, numeric kernels | out of scope, see section 7 |

How they interact.  The server owns one template `Runtime` and one scheduler built
on it.  The completion and chat handlers call `runtime.generate` on the template
itself; the batch handler calls `submit_many` and then `run_until_complete` on the
scheduler, which forks the template for every request it admits.  Forks have a KV
cache each and share the weights, the tokenizer and the prefix cache (CUDA forks
also the page allocator).  The handlers are plain `def` functions, which FastAPI
runs in a thread pool: nothing in the repository takes a lock, so that the
scheduler's lists, the template's KV cache and the prefix cache are shared by
threads that the interpreter may switch between any two operations.

What is hard: the interleavings of those threads; state that is read in one
statement and used in a later one (queue length and index, `_paused`, the index
that `cancel` found, an iteration over the prefix cache); a round of the scheduler
that resumes, admits, preempts and admits again, with marks that arrive meanwhile;
an exception in the middle of a round; a restored prefix that has to fit what is
run after it, in every layer; a policy applied after every append to a table that
restores and clears also change; a pool that one session grows while others hold views of
it; an out-of-memory error between two nodes of a walk that several sessions share;
thirteen rewrites of one graph whose order matters, over graphs that four importers
spell differently; a file format with a dozen block layouts.  `PROJECT.json` ("hazards") lists them at their
lines, with the properties that cover each.

## 2. The modules

| module | what it is |
|---|---|
| `RequestLifecycle` | what the scheduler promises its callers: a life cycle per request, one outcome, `MaxBatch` slots |
| `Scheduler` | the scheduler, with any number of threads that submit, cancel and run the loop |
| `MCScheduler` | values for TLC: requests, priorities, lengths, calls |
| `SequenceLemmas` | facts about sequences and sets of their elements that the proofs share |
| `SchedulerProofs` | the theorems about `Scheduler` |
| `Generation` | generation without any cache: prompt first, then one token after another |
| `RuntimeSessions` | calls of `generate` on sessions that share a prefix cache |
| `MCSessions` | values for TLC: calls, sessions, nested prompts |
| `SessionsProofs` | the theorems about `RuntimeSessions` |
| `PagedKVCache` | page table and spillover policy of one session |
| `MCPagedKV` | values for TLC: the policies |
| `PagedKVProofs` | the theorems about `PagedKVCache` |
| `Server`, `MCServer` | the batch endpoint: handlers, each a thread, over the whole of `Scheduler` |
| `ServiceProofs` | the refinement of `RequestLifecycle`, the counters and the batch endpoint: what the scheduler's invariants give its callers |
| `CudaPages` | page tables of CUDA sessions over one allocator, pool and budget |
| `CudaSessions`, `MCCuda` | graph walks over one session or a batch, the two attention paths, faults; extends `CudaPages` |
| `CudaPagesProofs`, `CudaSessionsProofs` | the theorems about both |
| `GraphIR` | types, nodes, graphs, `validate`: the operators the compiler modules share |
| `Importers` | four formats to a logical graph |
| `Passes` | the passes, each an operator from graph to graph |
| `GraphExec`, `CudaExec` | what the CPU and the CUDA runtime compute from a graph, as terms |
| `MemoryPlan` | the loop of the memory planner as a system of its own |
| `Compile`, `MCCompile` | `compile_model` and `save_bundle`; extends all of the last six |
| `GGUFFile` | a GGUF file byte by byte: its writer's layout, and its reader |
| `Quantization` | packed rows |
| `Weights`, `MCWeights` | the weight stores of both runtimes over files of either kind |
| `ArtifactProofs` | the theorems about the memory plan and the schedule of compiled graphs, and about the weights |

### Scheduler

Shared state is named as in the class: `pending`, `paused`, `cancelled`,
`submitted`, `arrival`, `metrics`; `drawn` counts the readings of the clock and of
`_arrival_counter` for stamps.  A thread has a program counter `pc` and the locals of its
current call: `call` (the requests a submit has not enqueued yet; the request a
cancel has found), `active`, `batch` (popped, not yet prefilled), `quota` (pops the
admission comprehension still does), `choice` (`now` and the scores so far of
`_pop_pending`), `pick` (the end of the range it scores, then `best_idx`; or the capacity
`_pop_paused` computed, or the index `cancel` found), `scan` (what a `for` loop has
yet to see), `ready`, `results`.  `survivors` lives in `active` once the round has
decoded, as the code rebinds it there.  `fate` and `returned` are history: what
callers were told.

A step ends wherever the code reads shared state in one statement and uses it in
another: `CheckCapacity`, then `Enqueue`, `Stamp`, `Number` and `CountSubmitted` (the
append, `_submitted_at`, `_arrival_order`, the counter: two submitters may draw the two
stamps in opposite orders); `Cancel` and `Withdraw` (search, then `pop(idx)`);
`Resume` and `Unpause` (slice, then `self._paused[capacity:]`); `Admit`, then for each
request `Select` (`now`), `OpenRange` (`range(len(_pending))`), `Weigh` and `Rank` for
each index of the range (the look-ups in `_submitted_at` and in `_arrival_order`) and
`Take` (`pop`); `Preempt` and
`Displace`; one step per element of the comprehension and of the two `for` loops.
A single `append`, `pop`, `sort`, membership test or `+=` is one step, and so is a statement
that reads the clock or the arrival counter and stores what it read under the request's
id, which nobody else writes.

Abstracted: token values and text (a request has a number of tokens); the clock
(its readings are ordered: submissions have even times, what `_pop_pending` reads lies
between them; a request that has waited longer outscores another by any amount, which is what
aging can do; one not stamped yet has waited not at all, one stamped after `now` a negative
time); milliseconds, latency, promotion and prefix counters; the decoding of a round's sessions is one step, since
each is on a session of its own; the three forms of prefill are one action, as they
differ in batching only, and any of them may raise (`RuntimeError`).

### RuntimeSessions

`entries` is the dictionary with its order, `kv[s][l]` the keys and values of a
layer: for each, the token and the position it was rotated to, which is what makes
it right or wrong to attend to.  A call goes through `prefill_tokens`
(`Search` one entry at a time, `Touch`, `Load` or `Clear`), `run` (`Rope` reads
`_position_offset`, `Attend` appends, layer by layer), `remember_prefix`
(`Remember`, `Pop`, `Insert`, then `Full` and `Evict`) and `generate`'s loop
(`Say`).  An iteration over an `OrderedDict` that another thread changes raises at
its next step unless it has already seen the last entry, and so do `move_to_end`,
`pop` and `popitem` for want of a key: the disjuncts that lead to "failed".
The next token is any token, so that the properties do not depend on what the model
computes, only on what it is given.  In sessions shared by calls `Remember` copies
all layers in one step; that only leaves out behaviours of the run that looks for a
violation.  `recent` is history, from which `LeastRecentFirst` says what the order of
the dictionary should be: the pairs of keys of which the first was not used after the
second.

### PagedKVCache

One thread uses a session, so a step is an operation, a pass of `_extend_pages`' loop
or an application of the policy.  A page is `[id, start, length]` and a marker
copies one, as in the code.  The eviction score is `start + 0.001 * layer` plus a
constant, and `start` alone without a cost model: with fewer than a thousand layers
both order by start, then by layer.  What the policy appends is given by position: the
marker at k is that of the candidate with k - 1 candidates before it (`InOrder`).  Appends have at least one token, since
`TokenizerBridge.encode` never returns an empty list.

### Server

A handler has a `phase` of its own, and `Scheduler`'s variables of its thread while it is
inside `submit_many` or `run_until_complete`: `Submitting` and `Running` take the steps of
`Scheduler` (`ClientStep`, `RunStep`, `RuntimeError`), and `Count` is the two `+=` on the
counters, each a read and a store, before the response.  A `RuntimeError` of `submit_many`
is a 429; one that leaves the loop is a 500.  The prompts of the run have equal
priorities, so that nothing is preempted: with different ones two loops can resume one
session (section 5).

### CudaPages and CudaSessions

An append is the sequence of steps the code makes (`BeginAppend`, `ExtendPages`,
`WritePage`, `EndAppend`; `job` holds its locals), since an out-of-memory error can stop it
between any two.  `pools[l]` has the slots of pages, what each slot holds, and a number that
stands for the identity of its tensors, which is what the fused decode compares.  `resident` is the set of markers, whose order
in the deque is that of their page ids.  `walk`
holds the locals of a graph walk: of a graph there are, for each layer, the node that
rotates and the one that attends.  A row of a cache is the token and the position it was
rotated to.  Attention reads it from the array (`Attended`), or through the page table as the
Triton kernel does, by position: slot of the page, place in it (`Gathered`; zeros where
there is none).  `Loaded` is the last step of `load_prefix`, which tells `_position_offset`.  `MemoryLimit` is `_enforce_memory_limit` before a node, which
clears the runner's cache and may go on; `OutOfMemory` an error in a node; `LoadFails` one
in `load_prefix`; `WriteRaises` the `IndexError` of a slot the pool never got, which leaves
the whole walk.  `suspect` are
the sessions of a walk that had one of these, or whose tokens were appended twice, until
they prefill again: the code promises nothing of what they hold.

### Importers, Passes, GraphExec, CudaExec, Compile

A graph is a record as `Graph` is, a name a pair of layer and role, a shape a sequence of
numbers.  What JSON, protobuf and regular expressions yield is the input; from there on the
importers are translated line by line of control.  `Compile` takes one step for each pass
(`RunPass`), one for each value the memory planner places (`PlanValue`, which is
`MemoryPlan`'s `PlanNext`), and ends a mode with `Graph.validate`.  `GraphExec` gives a graph its
meaning: `Executed` runs the nodes in order as `Runtime.run` does, over terms instead of
numbers, with the shapes NumPy would give and the failures it would raise; the meaning is
the output with the keys and values cached on the way.  `CudaExec` does so for
`_execute_node` and `_execute_batch_node`, which multiply by packed weights and split.

### GGUFFile, Quantization, Weights

A byte knows which field it belongs to, its place in it and its width, so that a read from
a wrong offset or of a wrong width fails where in the code it would give garbage.  The
writer's side (`FileOf`) is the format, external to the repository; the reader's side is a
step for each table entry, and tensors by name.  Weights are integers, scales fractions, so
that the arithmetic is exact; the least scale and the range of an int32 are constants of the
model.  `Weights` is `WeightStore` and, over it, `CudaWeightStore`: calls of `get` and
`get_quantized` in any order, with every cache.

## 3. The runs

| run | question | states, time |
|---|---|---|
| `sched_sequential` | One thread submits, cancels and runs in any order, four requests: types, at most one answer, exact token counts, no free slot while somebody is paused, balanced counters | 0.14 M, 15 s |
| `sched_service` | Two submitters append and stamp, one of them waits for room or is refused, against a loop that keeps being called: the comprehension's length, range and index stay valid, order of admission, implements `RequestLifecycle`, every request answered, every blocked submit returns | 0.15 M, 2 min 30 s |
| `sched_race` | Submits and cancels at any point of a round, sessions that raise: no request lost, slots respected | 2.1 M, 1 min 30 s |
| `server_batches` | Two handlers post batches, with a full queue, a prompt too long and sessions that raise: nobody's result sent twice, accepted prompts in one response, every post answered | 0.32 M, 2 min |
| `sess_serial` | Four generations in sequence on two sessions: longest prefix, LRU order, nothing raises, exact contexts | 0.3 M, 20 s |
| `sess_forks` | Three forks at once, prefix cache of one entry: snapshots exact, implements `Generation` | 0.22 M (with symmetry), 1 min |
| `kv_pages` | Appends, restores, clears, policies in any order: page table, markers, budget | 0.27 M, 20 s |
| `cuda_sessions` | Two sessions, walks of one and of both, with and without the fused kernel, a memory fault anywhere: exclusive slots, exact markers, pool = array, every query sees its context | 1.5 M (with symmetry), 2 min |
| `compile` | Seventeen models, 36 combinations of modes, target and quantization: types and meaning kept after every pass, both runtimes agree, shapes, memory plan, schedule | 0.02 M, 1 min |
| `packing` | GGUF files cut at any byte and npz directories, calls in any order: what is read is what was written, one weight for both devices, rows within half a step | 0.28 M, 1 min |

Two runs show where the code and what is said of it disagree (section 5).

### What the properties say

* `AtMostOnce`, `NoLoss`, `ResultsExact` and `EveryRequestAnswered` together are the
  scheduler's promise: one answer, not none, not two, of the right length.
  `NoLoss` excepts a request that an exception took away (`fate` "failed") or that
  was removed by a cancellation meant for another ("dropped").  Each is checked for
  the threads for which the code provides it: with a cancelling thread, or two loops
  and preemption, `AtMostOnce` fails (section 5).
* `NoIdleSlotWhilePaused` holds for one thread only: `_preempt_for_pending` does not
  look at the capacity, so a request that arrives between the two admissions pauses
  an active one although a slot is free.
* `AdmissionNeverStale` is what makes the unlocked comprehension work with a single
  loop: others only append.
* `FifoWithinPriority` is an action property of admissions (`AdmittedInOrder`): it compares the request
  that leaves with those of its priority or a higher one that stay, and whose two stamps the selection saw: it
  was not both submitted and numbered after one of them.  More the code does not promise: of two requests
  whose stamps were drawn in opposite orders either may go first (section 5).
* `CountersBalance` relates the exported counters with each other and with the
  requests still open.
* `SnapshotsExact` and `OwnedContextExact` are the heart of prefix reuse:
  what is stored is what a full prefill would have computed, and what the model
  attends to is the prompt and its own tokens at consecutive positions, in every layer.
* `PagesTile` is the page table contract; `MarkersNamePages` and
  `OldestSpilledFirst` are what a consumer of `spilled_pages` relies on;
  `BudgetKept` is the policy's bound.
* `EachAnsweredOnce` says what the batch endpoint does promise: not that a handler returns
  its own client's results, but that together they return each once.  It excepts what a
  loop that raised took with it or left in the queue or in the paused list, and says so.
* `SlotsExclusive`, `PoolHoldsContext` and `AttendsContext` are the CUDA cache's contract: what
  the kernel reads through the page table is what the reference attention reads, and
  that is what the session was given, at its own positions, without padding.
* `MeaningPreserved` holds the graph after each pass to the logical graph; where the latter has
  no meaning (an ONNX graph that would raise) it says nothing, and under quantization it is
  limited to graphs in which matmul weights are matrices that nothing else reads
  (`OnlyMatrices`), as all decoders are.  It says nothing of the values that constant folding computes: a
  graph that reads the text of a StableHLO constant has no meaning.
* The meaning of a graph is what it computes once it has its inputs and weights (`Environment`).  The runtimes
  bind one input, `input_ids` (`cpu.py:126`), and load no weight of an .onnx file (`cpu.py:79`), so that an
  artifact of another graph runs only with what a caller adds.
* `RuntimesAgree` is what `tests/test_runtime.py` samples.  It excepts graphs that hold the text of a constant
  (`BindsConstants`), which the CUDA runtime refuses (section 5).
* `PlanHoldsGraph` looks at the plan from the finished graph: while a node runs, whatever is
  still to be read has bytes of its own in the arena.  `LiveBuffersApart` says it of the planner alone, and is proved.
* `ReadsWhatWasWritten` also says what may be refused: a truncated file, a format without a
  decoder, a second .npz file.  `RowsRoundTrip` excepts rows whose zero point is no int32.

### Bounds, and why they are enough

Three or four requests of three priorities with 0 to 2 tokens, and a batch of 2, are the least
that has a paused, an active and a queued request at once and a
request without tokens; `MaxQueue` is small enough for a
submitter to find the queue full.  `sched_service` has two slots and one place in the
queue: a submitter does wait, two that saw the same room do overfill it, their requests draw time
and number in every order while the queue is scored, and the higher one does preempt.  Its two accepted requests have different
priorities, since a third would put the liveness properties out of reach; that equals keep their
order is proved, not checked.  Threads: one of each role, and two of the role a run
is about.  Ids are distinct, as `_enqueue` makes them; every request is submitted once.
Three calls on a prefix cache of one entry have two evicting at once while a third looks
up; forks that swap places with their calls are symmetric, and every property treats them
alike; four calls in sequence with capacity 2 need the LRU order twice.  One generated token per
call is enough, since each decode step starts as the first does, from a context that
ends with the last token run.  Prompts extend
one another, so that a lookup finds none, one, a shorter and a longer prefix, or the
prompt itself.  Two layers see every mistake that depends on another layer.  Pages of
2 tokens, runs of up to 4 and sessions of up to 6 cross page limits at every offset;
the policies have a limit alone, a model with the tighter and the looser limit, none
and one with unknown memory.

Two prompts in one post and one in another are the least with which two loops share the
queue and each other's results, and a queue of two makes one of them a 429; a third post has a prompt that
is too long and is refused with the one beside it.  CUDA: two
sessions, since sharing is between two; prompts of one and three tokens with pages of two, so that
a page is shared by two appends, a batch is padded and a prompt spans two pages; a budget of three
markers, fewer than two sessions need; `MaxWalks` of three, which is a prefill, a decode that
grows the pool and one after it, or a prefix remembered, restored and read; `MaxFaults` of one.
`cuda_double` has one layer and no faults.  Compile: decoders of zero, one and two layers, with grouped and
tied weights, in Hugging Face and GGUF form, padded vocabularies in files of both kinds, and
ONNX and StableHLO graphs that are there for one case each: a shared weight, a dead branch, a
constant to fold, a region, an output that is missing.  Packing: files of three tensors
at most have every block format between them, every integer of the format in a block; rows that
are constant, of one sign, of odd length, and one whose zero point is out of range
(`EpsInverse` 256 and `ZeroLimit` 16384 for the code's 10^8 and 2^31, in the same order).
In `Weights` a name that was refused is not asked for again.

### Fairness

`FairSpec` makes every thread that is inside a call take its next step eventually
(weak fairness of `ClientStep` and `RunStep`: Python threads are scheduled, and no step
of these calls waits for a lock) and has `run_until_complete` called again (weak
fairness of `Run`): the batch handler runs the loop after each of its submits, and
whoever calls `submit(block=True)` needs a thread that runs the loop, there being no other way out
of the polling loop.  Nothing is assumed of when requests arrive or of `cancel`.
`ServerSpec` has each handler take its next step eventually, as a thread of FastAPI's pool.
With finitely many requests a low one cannot be starved; with an endless stream of
higher ones it can, since preemption compares bare priorities and paused requests do not age.

## 4. What is proved

Every theorem holds for every value of the constants that satisfies the `ASSUME` of the
model's module, which says no more than their types and that limits are positive; what a theorem
assumes of the callers besides is a hypothesis of its own, named, and explained below.

### Scheduler

For any sets of threads, requests and calls and any limits (`SchedulerProofs`):

* `TypeCorrect == Spec => []TypeOK`;
* `SlotBoundHolds == Spec => []SlotBound`: no call of the loop ever holds more than
  `max_batch_size` sessions, also while others submit and cancel and sessions raise;
* `NoLossHolds`: no accepted request disappears (`DistinctIds`, and `OneLoop` or `~Preempts`: no request can
  preempt another, because preemption is off or all priorities are equal).

With the loop's own thread doing the cancelling (`OwnCancels`):

* `AtMostOnceHolds`, `ResultsExactHolds` (and `OneLoop` or `~Preempts`);
* `AdmissionNeverStaleHolds` (`SoleConsumer`: `OwnCancels` and `OneLoop`);
* `FifoHolds == Spec => FifoWithinPriority`, an action property (`SoleConsumer`, `DistinctIds`);
* `NoIdleSlotHolds` (one thread).

`SlotBound` is not inductive: a round passes through the paused list, the queue, a
preemption and the survivors, and what bounds `active` after the round is how many
requests `ready` had before it.  The strengthening is `SlotsInv`: for each thread,
`Len(active) + Len(batch) + quota <= MaxBatch`, and what each point of a round knows of
the locals: only the admission holds popped requests and a quota; while the comprehension
builds `ready`, `Len(ready) + Len(scan) <= Len(active)`; while it is collected,
`Len(active) + Len(ready) <= MaxBatch`; elsewhere `ready` is empty.

`NoLoss` needs to know what a round owes to sessions that are in no list that survives it.
`LossInv` says it (`Owed`): a session the comprehension has left out is marked or
done, and the retire loop, which has it yet to see, will finish it; a resumed one is in
`active` before `self._paused[capacity:]` drops it.  Marks and lengths only go from
"to be finished" to finished (`Progress`), which is where `DistinctIds` comes in: with two
requests of one id the first takes the other's mark, and the other is neither decoded nor
finished.  Two loops and preemption break the second half of `Owed`: one sorts or cuts
the paused list under the other.

`AtMostOnce` follows from a stronger statement about places (`OnceInv`): queue, paused list, returned
results, and for each thread what it will go on with (`Own`) and what it has answered are
pairwise disjoint (`Apart`), no list has a request twice (`Tidy`), and what `ready` holds is neither
marked nor done (`ReadyToDecode`).  `Own` depends on where the thread is: from the retire
loop on, `active` no longer counts.  `OwnCancels` is necessary: a mark that another thread
sets between the comprehension and the retire loop answers a session the round then decodes and
answers again (section 5).  `ResultsExact` is part of the same invariant, since a result shares the
token list of its session and is only safe while nobody decodes that session.

`AdmissionNeverStale` has `Fresh`: a quota, and the end of the range that is scored, are at most the length of the
queue, which others only lengthen.  `FifoWithinPriority` has `OrderInv`: a request is stamped once, by the call that
queued it (`StampInv`), and a score that was made, however long ago, is that of the request at its index and tells its
stamps if they were there (`ScoresTrue`); the index taken is that of the first of the best of these scores.
`NoIdleSlotWhilePaused` has `FilledInv`: after the first admission either the batch is full or nobody waits,
and a preemption with its second admission keep that; another thread's submit in between breaks it.
TLC checked every one of these invariants before it was proved.

`ServiceProofs` draws from them what a caller can rely on:

* `ImplementsLifecycleHolds`: the scheduler implements `RequestLifecycle`; `CountersBalanceHolds` (`OneConsumer`, `DistinctIds`,
  `~RuntimeFails`);
* `EachAnsweredOnceHolds`, of `Server` (`DistinctIds`, `OwnCancels`, and `OneLoop` or `~Preempts`).

The refinement reads the stage of a request off the places it is in (`StageOf`); `OnceInv` says that they exclude each
other.  `LifeInv` adds that whatever is in one of them is an accepted request (`Alive`) and that a withdrawal and a
preemption find what they went for (`Consuming`); a step then moves one request along an edge of the life cycle, or
none.  The hypotheses are necessary: another thread's withdrawal may remove a request that was not meant, two loops
resume one twice, with two requests of one id the first takes the other's mark, and an exception takes sessions out of
the life cycle.  `CountInv` says that each counter is the cardinality of a set of stages: submitted of the accepted
requests but for those not stamped yet, completed of those that ended, cancelled of the withdrawn and the aborted; the
cancelled results are matched with the aborted requests one to one.  An exception the scheduler raises of its own, from
a pop of an empty or shortened queue, is excluded by `FreshInv`, not by a hypothesis.

For the endpoint `ServerInv` adds to the scheduler's invariants where a handler stands in the scheduler's calls for each
of its phases (`Placed`), that every result returned is in exactly one answer about to be sent or one
response (`Delivered`), and that while something waits a handler is on its way to drain it, unless a loop raised
(`Attended`).  A step of a handler is a step of `Scheduler` or leaves its variables alone, so that its invariants carry over.

### Sessions

`SessionsProofs`, for any calls, prompts, layers and capacity of the prefix cache:

* `TypeCorrect`; `SnapshotsExactHolds` and `OwnedContextExactHolds` (forked sessions or serial calls: `Isolated`);
* `ImplementsGenerationHolds == Forked => (Spec => ImplementsGeneration)`: the refinement of `Generation`;
* `NeverRaisesHolds`, `LongestPrefixFoundHolds`, `LeastRecentFirstHolds` (`Serial`).

The invariant of the first group is `SessionInv`.  For each call it says, at each point, what the layers of its
session hold (`CallInv`): in a run the layers before the current one hold the context including the tokens
being run, the others do not yet; a search has exact entries before it and has found an exact prefix of the
prompt.  `Isolated` is necessary, as `sess_template` shows.  The refinement maps a call's session to the
context it stands for; it adds that sessions no call has used are empty (`Fresh`), and maps a step
to the abstract one, in which the last layer attends, or to a stutter.  It needs `Forked` and not only `Isolated`:
a later call on the same session clears it, and with it the context of the earlier call.
`AloneInv` is about the dictionary: what the loop has compared is shorter than the best found, what it found is
still there, and the order of the entries is that of their uses (`LeastRecentFirst`), which is what makes
`popitem(last=False)` evict the right one.

### Pages of one session

`PagedKVProofs`, for every finite set of layers, every page size and every sequence of operations:

* `TypeCorrect`, `PagesTileHolds`, `PageIdsUniqueHolds`, `MarkersNamePagesHolds`, `OldestSpilledFirstHolds`, and
  the action property `BudgetKeptHolds`.

The strengthening of `PagesTile` is `TableInv`.  A pass of `_extend_pages` decides between a
new page and the last one by `cursor % page_size`, not by the length of the last page; the
two agree because every page begins at a multiple of the page size (`Aligned`), and
three lemmas on remainders carry this from the last page to the cursor.  `LoopInv` says that the
loop has the tokens from the cursor to the end of its layer before it, and that the
layers `load_prefix` has not come to are empty, so that their pages may begin at 0.

The markers have `SpillInv`, with starts that rise in each layer (`Rising`).  Scores of different pages differ, so
that the rank of a candidate (how many have a lower score) is a bijection with 1..n, by
finite cardinalities: that replaces an induction over a sort.  If a page is chosen, an older one of its layer
has a lower rank and is chosen too.  `BudgetKept` counts: pages are at most markers and candidates together, and
the policy marks as many candidates as the table exceeds the budget by, or all.

### Memory plan and schedule

`ArtifactProofs`, for any sequence of events in the order of their starts, and for any model and options:

* `PlanSafe == PlanSpec => []LiveBuffersApart`: no two values that are alive at one node share a byte
  of the arena, and no buffer ends outside it;
* `PlanHoldsGraphHolds == Spec /\ []TypeOK => [](PlanHoldsGraph /\ LiveBuffersApart)` of `Compile`: the same seen from
  every finished graph;
* `ScheduleExactHolds == Spec /\ []TypeOK => []ScheduleExact`: its schedule is its nodes, with their kernels.

That a block is in the free list says nothing of the buffers that had it before; the
invariant adds that free and active blocks are pairwise apart (`BlocksApart`) and that a
buffer which is not active any more ended before every event to come (`Expired`), which is
where the order of the events and the `<` of `end < start` are needed.  The planner reuses
a block whole, with the size of its new value; that this only loses bytes and never
overlaps is part of the invariant's step.

`Compile` starts this loop with the events of its own graph.  `PlanEventsTyped` shows that they are events, in the order
of their starts: they are made node by node, and the recursion of `FlattenSeq` is solved position by position
(`FlattenParts`).  `Tracked` says that every event and every buffer is that of a value of the graph being planned; a graph
that `Graph.validate` passes has one producer for each name (`ProducedOnce`), and so a buffer's interval covers the nodes
at which the value is still needed (`BufferCoversLife`).  With `LiveBuffersApart` this is the plan of the finished graph.  For the schedule,
`ScheduleInv` follows the last three passes: kernels are selected, then the schedule is made, and the memory plan adds
an attribute and leaves it alone.

The hypothesis `[]TypeOK` is that graphs stay graphs: lists of nodes with flat lists of names, and sizes that are
numbers.  What importers and passes do to a list is a fold over it, of which the prover knows nothing (see below); TLC checks
`TypeOK` on every model of the run, after every pass.

### Weights

`ArtifactProofs`, for any rows, quantization scheme and order of calls on either store:

* `OneWeightHolds`, `RowsRoundTripHolds`: as far as the file is read right (`ReadsWhatWasWritten`), the copies of a weight are one
  weight, and a packed value is within half a step of the one it stands for;
* `DirectoryRead`, `DirectoryRoundTrips`: a directory of .npz files is read right, and so the same without that condition.

`RowsGiven` says that a source has rows of numbers, `Directory` that the files are finitely many and no key is in two.
For one row: a quotient is rounded to within a half (`RoundedNear`), the scale times the number of steps reaches from the
lowest to the highest value (`ScaleReaches`), and clipping never takes off more than rounding put on (`ClippedNear`), which together
is `HalfStep`.  Two values of 4 bits return from their byte (`PackedReturns`); the GPU unpacks by
concatenating pairs (`FlattenedPairs`: a solution of the recursion is given, and that any solution agrees with it
follows by the least index where it would not).  For the store, `StoreInv` relates the dense, packed and GPU caches of a
name, whichever call filled which first.  `ShardsInv` is that the one .npz file which stays open is that of its key.
What the GGUF reader makes of bytes is induction over the file: that is the condition on the first two, and TLC's to check.

### CUDA sessions

For any sessions, layers, prompts, batches, page size and budget, and wherever memory runs out:

* `SlotsExclusiveHolds`: no page is in two places of the tables, and no slot of a pool has two pages;
* `MarkersExactHolds`: markers name pages, a page without one was taken by the budget, the budget is kept;
* `PoolHoldsContextHolds`: what the kernel reads through the page table is the array;
* `AttendsContextHolds`: every query sees the tokens its session was given before it, at their
  positions, alone or in a batch, through the array or the page table.

None is inductive; the invariant is built in layers, each proved over the last (`CudaPagesProofs` to the
fourth, then `CudaSessionsProofs`):

1. `IInv`: ids in the tables are below `nextPage` and in one place (`IdsApart`), the slots of each pool below
   its next one (`PoolsApart`).  It needs no types and holds whatever a walk does.
2. `TypeInv`: types, where a walk and its append can stand, and that any step has one of four
   `Effects` on the caches: none; some sessions given up; an append begun; a step of an append.  The layers
   below are proved of the effects.
3. `MarkersInv`: a marker's page was handed out, one marker for each page, the set is finite and within the budget.
4. `PagesInv`: the pages of a layer tile its rows, in an append as far as its cursor (`Tiles`), the sessions in doubt included.
5. `WrittenInv`: the slot of a page has the page's rows, but for pages the append has yet to copy (`Settled`).  A page
   that other sessions write meanwhile is in another slot, by layer 1; a pool that grows keeps its rows.
6. `ContentInv`: in a walk a layer holds the session's context or what it held before, according to how far the walk
   has come (`Expected`), the offsets are lengths of the past, a snapshot has the rows of its tokens.
7. `ViewsInv`: a view taken before another session's append is still that session's page table (`Good`), except for
   the identity of the tensors, which is what the fused decode tests.

`suspect` is what the theorems except, as the properties do: a session whose walk met an error, until it prefills again.

### Lemmas

`SequenceLemmas` has what the proofs share: the elements of appended, concatenated, cut and shortened
sequences (`ToSetAppend`, `ToSetConcat`, `ToSetSplit`, `ConcatElements`, `CutConcat`, `PrefixElements`, `RemoveAtKeeps`), and
which of these keep a sequence without repetitions (`InjectiveAppend` and the like).

### Only model-checked

`TypeOK`, `MeaningPreserved`, `RuntimesAgree` and `TypesMatchRuntime` of `Compile`; `ReadsWhatWasWritten` for GGUF files; all liveness.  Liveness under fairness and ENABLED are beyond the prover.  Induction over data is, too,
in so far as it needs an induction theorem with an operator for a parameter: facts by finite cardinality or by
a least element are proved (ranks of markers, page tables), what `FoldLeft`, `SelectSeq`, `SortSeq` or a RECURSIVE operator
computes in general is not.  That is why what the passes do to a graph, by folds over it, stays with TLC.

## 5. Where code and documentation disagree

| run | what TLC shows |
|---|---|
| `sess_template` | Two completions on the template runtime mix their tokens in one KV cache; the mixture is remembered under one prompt and restored into a session of its own. |
| `cuda_double` | The fused batched decode appends for every session before it finds that the pool's tensors were replaced; the loop it falls back on appends the same tokens again. |

`PROJECT.json` ("findings") quotes the lines each one contradicts.

Met while modelling, without a run of their own; the actions of the models take these
steps, and the properties are stated so that they except them:

* Scheduler.  A mark that arrives between the `ready` comprehension and the retire loop
  (`scheduler.py:186`): the request is answered as cancelled, decoded all the same and answered
  again.  The loop pops the queue between `cancel`'s search and its `pop(idx)` (144): another
  request is removed without an answer.  Two loops resume the same paused request (238-240).
  Two submitters that pass the capacity test before either appends exceed `max_queue_size`
  (255).  `_finish` counts a cancelled result as completed too (481), which `CountersBalance` takes
  into account.  A mark for an unknown id stays for ever (147).  A request that is
  queued but not stamped yet counts as the first arrival (251, 288): without aging a second submitter's
  request overtakes those before it.  The time and the number of a request are two stores (287, 288): with
  aging, of two requests whose submitters interleave there, the one with the larger number may be admitted
  first.  A request that is stamped between `now` (229) and its score has waited a negative time, and loses to
  one that is not stamped yet.
* Server.  Each handler returns whatever its own loop answered (`server.py:177`); a loop that raises
  leaves the rest of its batch in the queue, to be answered to another client; the counters'
  `+=` can lose an increment (178).
* Sessions and KV cache.  The hit counter also counts a cached prompt that is not reused, being
  the whole prompt.  Concurrent lookups and puts of the prefix cache may raise, and evict more than
  needed.  The overflow counts pages that are spilled already (`kv_cache.py:225`): every append spills
  more, down to no resident page.
* CUDA.  The memory limit clears the runner's cache in the middle of a walk that goes on
  (`cuda.py:702`), and a prefix remembered by such a walk is wrong wherever it is restored.  A
  page has its slot before the pool has grown (187), so that after an error the next copy
  of it raises; in a batch that leaves the other session halfway through its layers.  Slots are never given back (166).  A batched prefill on an artifact that was compiled
  for decode only is not masked and keeps its padding (830).
* Compiler.  `shape_inference` runs twice and both diffs are written to one file, so that the
  bundle does not "expose every pass as a graph diff" (`README.md:41`, `artifact.py:106`).
  Elementwise nodes take the type of their first operand, also when the second is wider
  (`transformer.py:81`; `NoWidening`).  A constant without a splat value makes folding raise
  (106).  A StableHLO constant stays in the graph as text, also when folding has left nothing that reads it:
  the CPU runtime binds it (`cpu.py:133`), `torch.as_tensor` refuses it and no CUDA runtime runs
  the graph (`cuda.py:527`, 569, 616).  An unfused `qkv_projection` stays unquantized.  A quantized weight that another
  operation reads as well arrives there packed.  The body of a StableHLO region whose operation has no
  mapping is read as if it stood outside (`stablehlo.py:100`).
* Weights.  The zero point of a row that is large and constant overflows its int32
  (`quantization.py:105`).  The store keeps the first .npz file it reads and looks every key up in it
  (`cpu.py:72`).  An unknown name of a quantization means int8 (`cpu.py:53`).

## 6. Plan

All of the modules planned are written.  Left, in this order:

1. Proofs that the passes keep a graph's types (`TypeOK`) and its meaning, once the graphs are built by functions that the
   prover can unfold.
2. A refinement of `PagedKVCache` by `CudaPages`, which differ in who owns the ids and in when the
   pages are written.
3. Several chat handlers in `Server`, with `RuntimeSessions` as the template they share.

## 7. What is not modelled

* Numeric kernels (NumPy, Triton but for how it reads the pool, CUDA, C++), which compute on
  floating-point data, and the adapters in `backends/` that choose between them.
* The libraries: .safetensors files, the gguf package's decoders, torch.cuda.CUDAGraph, FastAPI.
* The tokenizer bridge: a stateless map from text to tokens, which enters as `PromptLen` and `Prompts`.
* Hardware detection, command line, visualisation, benchmarks and MLIR text: input, formatting and
  timing, without state that another part reads.
* `tiny.py`, which writes a model for the tests; `load_longest_prefix`, which nothing calls.
* In `CudaSessions`, an error between the concatenations of keys and of values, which leaves them of two
  lengths; threads (the template's sharing is `sess_template`'s subject).
* The measured latencies of the scheduler's metrics, the transfer estimates of the cost model and the
  statistics of the allocator influence nothing but reports.
