# Verification of quip-solver-cpu

TLA+ models, model checks and proofs for the CPU solver of this repository: the
Rust crate under `src/src/`, its Python bindings under `src/py/`, and the
research campaign under `src/research/round2/`. All paths below are those of
`PROJECT.json`, where the definitions of every module are mapped to the lines
they translate. File names without a directory are of `src/src/`, or of
`src/research/round2/` for the Python ones.

## The system

A mining session (the external crate `quip_solver_core`) streams Ising jobs to
a sampler over a channel and reads results from another. The sampler runs a
pump that spreads the jobs over worker threads. Each job runs one kernel: an
annealer, Gibbs sampling, simulated bifurcation, or one of the tensor-network
samplers. Two kernels also split one model over threads. A research interface
calls the annealers directly, by name. Separately, a Python campaign runs many
measured jobs, one child process each, keeps the records on disk, and reports
on them.

| part | state it keeps | operations | hard behaviour |
| --- | --- | --- | --- |
| stream pump (`lib.rs`) | job channel, bounded work queue, result channel, pool of threads | receive, check the cancel token, hand over, sample, answer, join | interleaving, back-pressure, cancellation, panics, hang-up |
| configuration (`lib.rs`) | the core budget (an atomic) | parse, refuse, clamp, store; read for the width | order of configure and first job, 0 for the host, the share of a Gibbs model |
| spin barrier | arrival counter, shared sense, local senses | wait | reset against the next round, lapping |
| chromatic Gibbs | shared spins (relaxed atomics) | resample a chunk of a colour class | stale neighbours, chunk rounding, barrier per class |
| greedy colouring | colours, an uncleared scratch array | colour the next node | stale marks, index bounds |
| colouring cache (`sa_sampler.rs`) | one slot under a mutex | look up, build, replace | concurrent jobs on different graphs |
| simulated bifurcation | positions, momenta, controls; for the variants columns, rings, a leader | publish, barrier, move; warm up, check, guide | torn forces, slices, order of updates, gauge |
| integer annealers (`sa_int.rs`, `sa_msc.rs`) | field cache, spin words, bit planes | flip, propagate, count, accept | 8-bit range, carries, lanes that share one count |
| float annealer (`sa_msc_f64.rs`) | spin words, one random stream per word | visit a node in every lane | lanes that share a stream, partial words |
| SA sampler | none between calls but the cache | choose a kernel, seed, read, score | seeds lost in a fallback, kernels that should agree |
| tensor networks (`mps/`, `flatiron/`) | bond dimensions, canonical form, messages, pins | gates, canonicalisation, belief propagation, draw, polish | budgets, order of the sweep, messages of another read |
| research interface (`research.rs`, `py`) | none | seven layers of checks, sample, report | what an earlier layer must have refused |
| campaign runner | job queue, registry of children, event, records on disk | resolve, spawn, wait, kill, record, resume | signals, deadlines, killed parents, orphans |
| campaign plan, jobs, sweep, report | lists of jobs, records, rows | plan and pin, scale, rescore, join attempts, compare | units, shared cores, retries |

How they interact: the pump calls the kernels through a closure and gives them
the cancel token; the Gibbs and the bifurcation kernel share the barrier; the
Gibbs kernel and the packed annealers take their classes from the colouring, by
way of the cache; the two tensor kernels and the ordinary annealer share
`CpuGraph`, and the tensor kernels end every read with its polish; the campaign
starts the solver in child processes and sees only exit codes and files; the
report sees only the files.

What makes each part correct: the pump answers every job once, with the verdict
the cancel token justifies; a barrier is a rendezvous; a parallel kernel
computes what the sequential one does; a colouring is proper and of the job's
own graph; every lane of a packed word and every cached read is the walk an
uncached annealer takes; a seeded job uses its seeds or is refused; what is
reported is the energy of the problem that was received; a record on disk says
what happened and is never replaced; everything that starts ends.

## Modules

| module | models | relation to others |
| --- | --- | --- |
| `JobLedger` | what a session may rely on: each job judged once, in agreement with the token | abstract |
| `StreamPump` | `run_stream_pump` with the session, the configuration and the kernels as its environment | implements `JobLedger` |
| `Rendezvous` | what the parallel kernels need of a barrier | abstract |
| `SpinBarrier` | `SpinBarrier::wait`, one step per atomic operation | implements `Rendezvous` |
| `GibbsRead` | `gibbs_read` with classes split over workers | extends `SpinBarrier` |
| `Coloring` | `Coloring::new` over the adjacency of `CpuGraph` | the classes of `GibbsRead` |
| `ColoringCache` | `cached_coloring` under concurrent jobs | |
| `SbParallel` | `sb_run_parallel`: slices, publishing and barriers, for any arithmetic | extends `SpinBarrier` |
| `SbKernel` | the arithmetic: rows, one step of one particle, the gauge; a request, its reads and their seeds, the plain kernel | given to `SbParallel` by `MCSbParallel` |
| `TabuSearch`, `ReplicaRing`, `GuidedSwarm` | `sb_tesb.rs`, `sb_sbqa.rs`, `sb_ggsb.rs` | extend `SbKernel` |
| `SbSampler` | the kernel a request names, beside a read that a pool shares | extends all of the bifurcation core |
| `IntGraph` | the integer view of a problem, its limits, one Metropolis attempt | the reference of both integer annealers |
| `BitPlanes` | the words of `sa_msc.rs`: planes, carry-save and ripple addition, comparison | used by `PackedAnneal` |
| `PackedAnneal` | `anneal_words`, one bond per step | extends `IntGraph` |
| `ScalarAnneal` | `anneal_from` with its field cache, one neighbour per step | extends `IntGraph` |
| `OrdinaryAnneal` | the tabulated and the general kernel of `cpu-sa`, and the ladder of a job | extends `ScalarAnneal` |
| `SaSampler` | one job: choice of a kernel, seeds, reads, cancellation | extends all annealers |
| `FloatPacked` | the packed annealer for real couplings | |
| `Research` | the checks of both entry points and the report | extends `FloatPacked` |
| `TrotterSchedule` | steps and polish passes, the problem as received, `polish_from`, truncation | shared by the tensor kernels |
| `MpsChain` | order of the chain, gates and spans, budgets, orthogonality centre | extends `TrotterSchedule` |
| `FlatironNet` | the merged network, its budgets and gates | extends `TrotterSchedule` |
| `TensorSampler` | one job of either kernel, from its parameters to its results | extends both |
| `BeliefNet` | messages, marginals and draws of `flatiron/sample.rs` | |
| `CampaignRunner` | both paths of a campaign, tracked subprocesses, `run-one`, records on disk | |
| `CampaignPlan` | pins, lists of jobs, seeds, paths, identities | |
| `MeasuredJob` | one job: kernel input, rescoring, record, contamination | extends `CampaignPlan` |
| `SeededSweep` | the sweep from seeds, killed and resumed | extends `CampaignPlan` |
| `CampaignReport` | attempts to rows, the routed arm, comparisons, tallies | extends `CampaignPlan`, `CampaignRunner` |

`StreamPumpProofs`, `SpinBarrierProofs`, `GibbsReadProofs`, `SamplerProofs`
(colouring, cache, research, tensor networks), `SbParallelProofs` (pool and samplers),
`AnnealProofs` (the integer annealers and the job around them), `CampaignProofs`
(runner, sweep, plan, jobs, report) and `SumProofs` (finite sums, bit planes) hold the
proofs.
`MCStreamPump`, `MCGibbsRead`, `MCBeforeKernel`, `MCSbParallel`, `MCSaSampler`,
`MCTensor` and `MCCampaign` give the constants their values for TLC. A
definition whose comment says "Faulty variant of X" is not part of any
specification: it is what X would be with a plausible bug, and `PROJECT.json`
names the property that bug violates.

Three MC modules put parts side by side that share no variable, so that each
is explored beside one fixed state of the others: `MCBeforeKernel` (colouring,
cache, research requests), `MCTensor` (jobs, belief propagation), `MCCampaign`
(the processes of a campaign, or one of its four desks). No interaction
between the parts of such a run is claimed.

### StreamPump

One action per step of one thread that another thread can observe. The pump
goes through `first` (waiting for the first job), `spawn`, `recv`, `check`
(reading the token), `drop` (answering a cancelled job itself), `offer`
(blocked on the bounded queue), `join`, `done` or `raised`. A worker goes through
`idle`, `run`, `ran`, `send`, `exited` or `panicked`. The session sends,
cancels, reads, closes the job channel and hangs up whenever it likes; it
configures any number of times before the first job.
A job is a model value with a watermark; samples are an outcome. `stale`,
`lost` and `asked` are history variables. `InboxCap` and `OutCap` bound the
session's channels; cancellation raises the threshold at most to the number of
generations.

`Configure(toml)` is `apply_config`: text that does not parse and a `num_cpus` of
zero or less end the process (`exited`, after which the session takes no step),
any other number is clamped to `Host` and stored. A stored 0, which only a
session that never set `num_cpus` has, is read as the host. `StreamWidth` is
that of both samplers: the budget, or for Gibbs the budget over the cores of one
model. A `backend_toml` without `num_cpus` changes nothing and is no step. What
else the text may hold is left out.

### SpinBarrier, GibbsRead, SbParallel

A step is one atomic operation. The atomics of the barrier are acquire/release,
and everything else the workers share is separated by it, so sequentially
consistent interleavings of the loads and stores are what the build can do: the
theorems `FieldsAreFresh` and `ForcesAreWhole` say that nothing is written while
another worker may read it. `GibbsRead` leaves the draw open
(`Resample(step, node, neighbour spins)`), since it is keyed by seed, step and
node. `SbParallel` leaves the arithmetic open and needs only that a particle is
moved by what it read. Both carry the sequential run in a history variable
`ref`, advanced when the barrier opens.

`SbKernel` replaces floating point by integers: `DT`, `A0`, `gamma` and `c0` are
1, the control is one over `ControlScale`, the pump is multiplied by the number
of steps, the wall is at `Wall`. This keeps every branch of a step, and it
makes results depend on the order of the operations, which is what the runs
are about. It says nothing about rounding.

### The samplers on the bifurcation core

A request is a kernel, a variant, reads and sweeps. `SbKernel` keeps the
trajectories that advance together, the one whose turn it is (`turn`), and what
they all were when the step began (`before`, a history variable). A step of a
ring is one action per replica and per loop, so that the order of the loops is
the model's. `TabuSearch` runs its warm-up, stores columns in the gauge of a
positive ancilla, and draws one mini-batch per step for all reads. `GuidedSwarm`
ranks, pulls and perturbs. Draws (columns of a batch, perturbations, initial
conditions) are open choices over small sets.

### Coloring, ColoringCache

One action per node in the order of degrees. The scratch array `taken` is kept
as in the code, never cleared. `Init` chooses any multigraph on the nodes;
edges may be listed up to `MaxCopies` times. The cache is one slot with its two
critical sections as two actions; between them a worker compares, or builds.

### The annealers

A word is the set of the lanes whose bit is 1, so a bit operation of the code is
a set operation here. `PackedAnneal` follows the loops of `anneal_words` (sweep,
class, word, node) and absorbs one bond of a row per step; `ScalarAnneal`
follows `anneal_from` and adds one change to one neighbour per step. A row is
not stored: it is the bonds that join the node, in their order. The
temperatures are left out: every attempt draws any threshold in every lane,
which contains what any table of thresholds and any offset into it can yield.
`OrdinaryAnneal` adds the ladder as a sequence of rungs with their share of the
sweeps, and counts the draws of a read: both kernels must leave the stream at
the same place. Each carries a history variable, `ref` or `walk`: the plain
Metropolis walk that draws the same and computes every field afresh.

The general kernel of `OrdinaryAnneal` computes in doubles. Biases and couplings
are counted in the largest power of two they are all multiples of, so a sum is
exact while its number of units is at most `DoubleExact`. A problem with a
larger field is not `Exact`: the seeding of the cache, and every flip in the
fields of the neighbours, may then be off by any number of units up to
`Rounding`, while the reference stays exact. The cached walk may so part from the
reference, which is what the comment at `sampler_core.rs` 256-263 says of it;
the run reaches such reads.
`SaSampler` starts one of them as `sample_sa_variant_with_cache` does, or
refuses a seeded job. The cancel token is read where the kernels read it and
may answer yes each time.

The limits of the code are kept: 20 neighbours in the tree, 63 bonds in six
planes, a reach of 100 in 8 bits.

`FloatPacked` gives every word a stream of numbers, each the largest climb it
accepts, and lets lane after lane take the next one. Its history `short` is the
run with fewer reads, walked one configuration at a time.

### Research

A request is a kernel, its seed rows and the set of its defects. A check is a
predicate and an answer; a layer is a sequence of checks; the two methods list
their layers in the order of the code. What passes runs on `FloatPacked` or is
answered in a step.

### The tensor networks

Of a tensor the dimensions of its bonds are kept and, on the chain, what the
site is known to be (left or right isometry, unit norm). A truncation may keep
any rank up to its limits, which includes every outcome of the decomposition
and of its fallback. The order of the chain, the merge of bonds, the gates, the
budgets and the polish are exact, with integers for couplings and work. A
problem may hold self-loops, parallel edges, edges out of range and too few
couplings. `BeliefNet` is exact too, over integers: messages are reduced to
lowest terms where the code divides by the trace. Its networks are small, their
weights absorbed.

### The campaign

A step of `CampaignRunner` is one access to shared state: the queue, the
registry under its lock, the event, the disk, or a process. A signal handler
runs on top of whatever the main thread does, including another handler
(`frames`). A child goes through `starting`, `computing`, `sampled`,
`recorded`, `ended`, in its own session: it outlives a parent that is killed.
On the serial path the main thread runs the jobs; the handlers are installed
around each wait, so a signal outside that window ends the parent. `Event.set`
is taken as atomic. Records keep their kind and who killed the child.

The other four modules are decisions: one step each from a request to a list, a
record or a set of tables, except the sweep, which is killed and restarted
between any two of its steps. A digest is the tuple of what is digested,
energies are integers in quarters of the unit, a missing number is the empty
set.

## Runs

| run | instance | what it shows |
| --- | --- | --- |
| `stream_pump` | 3 interchangeable jobs, a host of 2, both samplers, `num_cpus` absent, refused, fitting or too large, polling kernel | the ledger is implemented; one place per job; clean return; at most `width + 1` stale jobs per cancellation; no pool under a refused setting, and as many workers as models fit into the cores granted |
| `stream_pump_live` | 2 jobs of different generations, Gibbs on a host of 4, kernel that does not poll, fair | every job sent is settled; the stream ends |
| `pump_stale` | 2 jobs | **violated:** a job cancelled after the check is still sampled |
| `gibbs_read` | 3 workers, 8 nodes, 3 classes, 2 sweeps, fair | the result is that of the sequential read; the barrier is a rendezvous and loses no arrival; the read ends |
| `before_kernel` | all multigraphs on 5 nodes, edges up to twice; 2 threads, 2 jobs each on 3 topologies; requests with up to two of 20 defects | the classes are a partition into independent sets; a job anneals on its own colouring; samples come from the kernel that was named, with its seeds; a longer run begins with the reads of a shorter one |
| `sb_parallel` | 3 workers, 3 nodes and the ancilla, 2 steps, 9 starts; then 9 requests on every kernel | the result is that of the sequential run; the gauge keeps the energy; rings move at once; the leader is the best; the gauge is a symmetry |
| `sa_sampler` | 20 jobs on 3 nodes with up to 101 parallel bonds or fields too long for a double, 2 words of 2 lanes, 3 reads, thresholds 0, 2, 19, 70 | every lane is its walk; while nothing is rounded both ordinary kernels make the same walk and draws, and otherwise the cache stays near the fields; no seed is dropped; results are in order |
| `tensor` | 3 graphs, 3 divisions of the sweeps, ladders, bonds up to 3, both kernels; 24 networks of 3 and 4 nodes | the sampled state is canonical; the evolved energy is the reported one; the budget holds; the polish ends downhill; marginals on trees are exact |
| `tensor_polish` | a path of 10 nodes, the code's own constants | **violated:** a returned read that one flip improves |
| `campaign` | 2 jobs, 2 workers, with signals, kills and resumed runs on both paths, fair; beside it each desk over its requests | a cancel reaches every child and leaves no fallback; records are complete, honest and kept; a returned run is complete; the plan is sound; the report agrees with the records and no retry hides a success; the run ends |
| `campaign_killed` | 1 job, 2 runs, 1 kill | **violated:** an orphan and the resumed run write the same attempt |
| `campaign_signals` | 1 job, 2 signals, fair | **violated:** two signals deadlock the parent on its own lock |

Why the bounds are enough. The pump: three jobs fill the queue, the hand of the
pump and a worker of a width-two pool, and a capacity of one makes every channel
block; on a host of two a Gibbs model of two cores makes the pool one worker, and
a `num_cpus` of 5 is clamped. Gibbs: the classes have chunks of 2, 2, 0 and 1, 1, 1
and 1, 0, 0 nodes; six rounds bring the sense back several times, so a sleeper
could be lapped; the draw changes with every neighbour, so a missed one shows.
The cache: two edge lists and two node counts, so that entries differ in either;
two jobs per thread let an entry be replaced between a look-up and a build.
Research: an order of checks shows in pairs of defects; four reads are two words,
and the shorter run has one. Bifurcation: slices of 2, 2 and 0 particles, two
steps so that a publication can meet the forces of the step before, starts with
the ancilla below, at and above zero; rings of 3, 2 and 1 replicas; initial
conditions of both gauges, and energies of signs and of positions that rank
differently. The SA sampler: parallel bonds meet each limit from both sides on
a small graph (20 and 21 bonds with the field, 63 and 64 bonds, a reach of 100
and of 101); 3 reads leave the last lane of the second word without a read, 4
seeds are one more than the reads; `TableRungs` 1 makes a ladder of 2 too long
for the table; a field of 150 units is too long where doubles hold 110. Tensors: the small budgets cut the bond dimension, then the
steps; ladders rise, fall and skip; one graph has every defect of an edge
list; one network is a cycle. The campaign: two workers race for the queue and
the lock; a third run resumes a resumed one; two kills leave two orphans; a
job has up to three attempts, of every kind. `campaign_signals` is the only
configuration without deadlock checking: there the system really stops.

Fairness. Threads are scheduled by the host, and the spin loop yields, so every
worker step is weakly fair; kernels return; the session keeps reading until it
hangs up, without which a full result channel blocks by design. In the campaign
every worker and the main thread are weakly fair. Nothing is
assumed of the session's closing, configuring or cancelling, nor of children
ending (every wait for a child has a deadline), nor of the desks.

## Findings

1. `pump_stale`: the comments at `lib.rs` 161 and 258 say cancelled generations
   are dropped before a worker touches the graph. The token is read once,
   before the hand-off. `StaleBounded` is what does hold.
2. `campaign_killed`: attempts are "never overwritten" (`round2_cpu.py` 85), but
   an orphaned child and the resumed run share an attempt number.
   `AttemptsAreKeptUnlessKilled` is what does hold: while no parent was killed
   and no serial run gets a second signal, which may also leave the child behind.
3. `campaign_signals`: a second signal during the handler of the first waits
   for a lock held by the code it interrupted.
4. `tensor_polish`: the polish is said to guarantee local optimality
   (`sampler_core.rs` 308), but it stops after a number of passes.
   `PolishEndsDownhill` is what does hold.

Smaller ones without a run of their own:

- The comment at `lib.rs` 417-419 says every `Sampler` of the crate must call
  `apply_num_cpus` from `apply_config`, or it ignores the operator's core budget.
  The samplers of `sb_sampler.rs` (259), `mps_sampler.rs` (118) and
  `flatiron_sampler.rs` (71) have no `apply_config` and run one model per core of
  the host: they are the `"Sa"` sampler of the model that nobody configures.
- The comment at `lib.rs` 284 says a panic propagates instead of degrading
  throughput unnoticed. It propagates when the session ends; until then the
  pool is narrower (`CleanReturn` is what holds).
- `round2_cpu.py` 281-283 says a cancelled job "gets no record at all", but a
  child that wrote its record before it was killed has one. The record is true,
  and the next run keeps it.
- On the serial path a second signal during the kill of the first leaves the
  child behind (`round2_runner.py` 1117); `CancelReachesEveryChild` is stated
  up to the first signal there.
- Pinning a spin in `flatiron/sample.rs` refreshes the messages out of that node
  only (205 on), so on a tree the second and later draws are not conditioned
  through nodes in between: `TreeMarginalsAreExact` is stated for the first
  draw of every read.
- `Msa.sample` with an array of zero seed rows ignores `start_beta`;
  `sample_seeded` does not call `check_sample_size`.
- In the pilot the report's routed arm keeps one of three repetitions while 15
  are expected, so it shows jobs as missing. `ReportAgrees` asks of the routed
  arm which energies it has, and nothing in a pilot.
- A run of the unit kernel that succeeds with an energy that is not finite is
  still what the routed arm takes (`round2_report.py` 142-145): the model has no
  energy there, although the other kernel may have one (`EnergiesOfEither`).

## Proofs

The theorems hold for every value of the constants, under the named assumptions
the modules state (a non-empty pool, classes that are independent sets, slices
of at least one particle, at least one worker of a campaign; fields, couplings
and loads that are integers; in the campaign, models with a coupling for every
edge; of a report, tolerances that widen, and records that measure a model once
per kernel and depth, except in the pilot).

- **StreamPump.** `TypeCorrect`, `JobsStayInOnePlace`, `CleanReturnHolds`,
  `WidthHolds`. The inductive invariant is
  `ControlInv /\ WidthInv /\ OnePlacePerJob`.
  The type alone is not inductive: `ControlInv` ties the state of the pump to
  its hand, its width and the workers that exist. `WidthInv` says that what is
  stored is what was asked, clamped, and that a pool was sized from it; that the
  pool is as many whole models as fit is a fact about the division
  (`WholeShares`, `StreamWidthFits`), and a setting cannot change behind a pool
  because none comes after the first job (`ConfigureIsEarly`). Every step moves at most one
  job from one place to another, which is one lemma about partitions, used by
  each action. `StaleIsBounded` follows the jobs of one generation that are
  stale or may yet become so (`StaleInv`): the set is small when the generation
  is cancelled and never grows afterwards. The refinement `PumpIsLedger` reads
  stage and verdict off the one place a job is in (`StageFacts`); it needs that
  a kernel gave up only on a cancelled job, that a worker ends early only for
  want of a reader, and that the pump leaves jobs behind only after a failure
  (`LInv`).
- **SpinBarrier.** `BarrierTypeCorrect`, `NobodyPassesEarly`, `ResetLosesNobody`
  and the refinement `BarrierIsRendezvous`. The invariant counts the arrivals of
  the open round and says which sense each worker carries for its round.
- **GibbsRead.** `WorkersDoNotMatter` and `FieldsAreFresh`. Chunks are disjoint
  and cover the class (`ChunkArithmetic`), and the neighbours of a node are
  outside its class, so nobody stores them in this round.
- **Coloring.** `IndicesInBounds`, `ColoringIsProper`, `ClassesAreTight`,
  `ClassesArePartition`. The invariant says that a mark of the current node is a
  colour of one of its neighbours and that every mark in the array is from a
  node that is already coloured; there are always enough free colours.
  `ClassesArePartition` is the assumption `GibbsRead` makes of its classes.
- **ColoringCache.** `JobsKeepTheirColoring`, for any number of threads: an
  entry that is compared equal is the job's own, and what another thread stores
  replaces the slot, not the entry that is held.
- **SbParallel.** `SlicingDoesNotMatter`, `ForcesAreWhole`, `SbResultHolds`.
  Slices are disjoint and cover the particles; rounds alternate between
  publishing, which reads only one's own particles, and moving, which reads
  only couplings nobody writes.
- **The bifurcation samplers.** `SamplerTypeCorrect`, `RingsMoveAtOnce`,
  `LeadersAreBest`, `ReportedSpinsKeepTheEnergy`, `GaugeIsFree`, for every
  problem: edges repeated, out of range or at one node, with or without an
  ancilla. The invariant `SamplerInv` describes a step of a ring half way
  (`RingInv`): the members whose turn has passed are moved by what `before`
  shows of their neighbours, the others are untouched. A swarm ranks by a number
  added up over the rows of the particles; that it ranks as the reported
  energies do, and that the gauge of the ancilla keeps the energy, is a sum over
  bonds taken once by pairs and once by rows (`SumSwap`).
  `ReportedSpinsKeepTheEnergy` has the hypothesis `PoolRunsKernel(variant)`: the
  operators `SbParallel` leaves open are those of `SbKernel`, as they are in
  `MCSbParallel`.
- **Finite sums and bit planes** (`SumProofs`). Sums over finite sets: by one
  element, of two functions, along a bijection, over rows and columns. The folds
  of the community modules and recursive functions are unfolded one element at a
  time, and induction is over the set of the numbers for which a statement
  holds. `AddPlaneAdds`, `LimitPlanesValue`, `AtMostPlanesValue` and
  `PopCount21Adds`: what the word operations do to the number each lane holds.
  The numbers are never enumerated: one lane's six bits are, and the carries of
  the tree are eliminated level by level.
- **PackedAnneal.** `LanesAreWalks`: for every graph that `Packs`, every number
  of lanes, words and sweeps and all thresholds, each lane is its own Metropolis
  walk; with it `RippleCounts` and `PackedTypes`. The invariant is `PInv`. That
  lanes agree with their walks is not inductive: `InputsAreExact` and
  `RippleIsExact` say what has been counted in the middle of a row, and at its
  end the count decides the flip exactly as the field does
  (`AcceptsFromCount`): with `d` bonds of which `n` are satisfied, the field
  along the spin is `d - 2n`, so it is at least `-m` iff `n <= (d + m) div 2`.
- **ScalarAnneal.** `CacheNeverDrifts`, `CacheNeverOverflows`, `ReadIsWalk`. The
  invariant `SInv` describes the cache in the middle of a flip: the bonds not
  walked yet still see the old spin. So each cached field is the field of some
  state, seen bond by bond, and stays in reach at every moment.
- **SaSampler.** `KernelsTakeOneWalk`, `SeedsAreTaken`, `ReadsAreHandedOver`,
  `JobLanesAreWalks`, for any jobs that fit the interface. The invariant `JInv`
  is that of the kernel that runs (`PInv`, `SInv`, or `OInv` of the ordinary
  annealer), and says that what has been handed over belongs to walks already
  finished. `KernelsTakeOneWalk` needs that bonds of no weight and bonds of a
  node with itself change no field (`GeneralRowFacts`), which is where the
  tabulated and the general kernel differ. That the kernels make one walk is
  claimed for exact problems only. For every problem it bounds the drift of the
  cache: a flip changes each field by the coupling with the node, parallel bonds
  added up (`FlipTurnsBonds`), and its cached value by the same and at most one
  rounding (`SeedIsNear`, `SpreadIsNear`), so after `accepts` flips the two are
  at most `1 + accepts` roundings apart.
- **Research, FloatPacked.** `SamplesAreOfTheNamedKernel`: no order of the checks
  lets a defective request reach a kernel. `ReadsDependOnTheirWord`: two runs
  with one seed agree on the reads they share, for any two numbers of reads.
  A stream is used up by the lanes of its word only, and lanes without a read
  are walked all the same, so the shorter run, walked one configuration at a
  time, is the beginning of the longer one.
- **TensorSampler.** `MpsSamplesCanonicalStates`, `AnnealWorkIsBudgeted`,
  `PolishGoesDownhill`, `PolishNeverCycles`, `EvolvedProblemIsScored`, for any
  jobs with numbered nodes, with loops, parallel, dangling and uncoupled edges,
  and any ranks the truncations keep. The invariant is `TensorInv`. Between gates
  every bond stays within the left side of its cut and the chosen bond dimension
  (`BondsFit`), whatever sites have lost their form; the sweep that makes a state
  canonical then takes every bond inside the right side too (`MpsCanonical`).
  The finished steps cost no more than as many full steps, the open one no more
  than the spans or bonds up to its gate (`MpsWork`, `FlatWork`): a factoring at
  the bonds there are costs no more than one at the bonds the budget assumed
  (`ProductIsBounded`, `FactoringGrows`). The walk over the graph lists every
  node once (`BreadthVisitsAll`) and the sorted gates are the coupled edges, each
  once, so `EvolvedProblemIsScored` is an equality of sums in another order and
  in groups (`SumInGroups`). The polish rests on `ScoreDelta`: a flip changes the
  score by twice its field, with parallel edges added up.
- **CampaignRunner.** `RecordsHaveTheirSamples`, `CancelsAreNotRecorded`,
  `ReturnsAreComplete`, `CancelsReachChildren`, `AttemptsAreWrittenOnce`, for any
  jobs, workers, runs, signals and kills. None of the properties is inductive.
  The base is `ControlInv`: a job is in the queue or with one thread, and a child
  that is alive has a thread that waits for it. `DataInv` orders samples and
  records; `CancelInv` says that a thread past its second look at the event
  knows of every cancel that could have killed its child; `CompleteInv` finds
  every planned attempt in the queue, with a thread or on disk; `ReachInv` finds
  for every child a cancel has missed so far the handler on the stack that will
  kill it, because the child is registered before the event is looked at again;
  `OneWriter` says that an attempt about to be written is the next one, which
  needs that no child outlives its run.
- **SeededSweep.** `SweepRecordsOwnTheirSamples`: `SweepInv` says what the
  process has in hand at each stage and that every job before its own has a
  record under its key; the samples are written before the record, and a record
  that is kept is the one its samples were written for.
- **CampaignPlan.** `PlanIsAlwaysSound`, for every machine, index and captures.
  A plan is made in one step, so the work is in the operators: picking one
  processor of each core, sorting by rank, and that paths and seeds tell jobs
  apart.
- **MeasuredJob.** `RecordsAreHonest`, for every model with parallel and reversed
  edges: the energy that is rescored from the merged pairs is that of the bundle,
  a scaled model keeps its order, and what is recorded of contamination follows
  from the load the workers do not explain.

- **CampaignReport.** `ReportsAgree`, for any attempts, captures, tolerances,
  scales and reads. A report is made in one step, so the work is in the
  operators. A row joins two attempts of its job (`RowJoins`). There is one
  routed row for each source (`RowsAreLoaded`), which is the unit kernel's row
  wherever that ran (`RouteOfKey`); the routed arm then has the energies of one
  kernel or the other because no two measured rows are of one model, kernel and
  depth. The buckets of an arm and the outcomes of a comparison are counted as
  unions of disjoint finite sets, a share as a quotient with its rest, and lanes
  at distance zero as reads that are equal. `RetriesHideNothing` joins the
  runner to the report: records that are there stay what they are
  (`RecordsStay`), and a success is shown as soon as there is one (`ShownIfAny`).

Some theorems state what no run lists as a property (types, `NoEarlyRelease`,
`NoStaleField`, `NoTornForce`, `ProperColoring`, `PassesGoDownhill`): most are the parts
of the inductive invariants that a reader asks for, and hold for all constants.

Only model-checked:

- Everything under fairness (`EveryJobSettled`, `StreamEnds`, `ReadEnds`,
  `RunEnds`): the prover has no rule for ENABLED.
- `TreeMarginalsAreExact`: belief propagation on trees is an induction over trees
  with fractions in lowest terms, and `Gcd` is a RECURSIVE operator, without
  which the SMT solver is not available.

## Not modelled, and why

- Numbers as such: rounding (but for the field cache of the ordinary annealer),
  annealing schedules (the ladder is any sequence of
  rungs), tensor entries, medians and bootstrap intervals, the coupling scale
  `c0`, NaN and infinities (a request has them or not; a field that is not
  finite is read as 0 where the code does so). The random streams are open
  choices or constants.
- `mps/svd.rs` beyond the rank it keeps, among it which columns the fallback
  `qr_truncate` drops; the cost of canonicalisation, which the code does not
  charge to the budget either.
- The session crate, the operating system and the file system beyond what the
  code asks of them: reuse of process ids, torn writes (the code renames).
- Reads mode of the Gibbs kernel, where threads share nothing but results, and
  the start-up checks of its configuration (`GibbsConfig::validate`).
- The `estimate` command, `reconcile_spend`, figures and wording of the report.
- The benchmarks, examples and main functions: no state worth checking.

Abstractions to know of: `Rounding` stands for all additions of one seeding or
one flip and is one number for a whole read; an anneal of the tensor kernels may
be ended by the clock before any step, though the shipped configuration of the
chain switches its clock off; the sweep rescores in the unit of the energies,
without the factor 1000 of `round2_runner.py` 1433; every record is taken to have a
`model_hash`, which `round2_report.py` 134 asks of the sources of the routed arm;
equally fast attempts of a job are ordered arbitrarily;
`--cells a a` is a set; a package with other than one shared library has no
binary identity; `qpu_seed_lanes` is given at least as many reads as lanes,
since with fewer it counts the lanes that are missing as duplicates.

## Plan

Done: the pump against its ledger, the barrier, the Gibbs read, the colouring,
the bifurcation core and its samplers, the integer annealers and the job around
them, the cache of colourings, the research interface and the float annealer,
each with proofs; the campaign on both paths, its plan, jobs, sweep and report,
with proofs; the tensor networks, with proofs for both kernels.

Left: Reads mode of the Gibbs kernel. Every safety property a
run checks is a theorem, but for the marginals on trees.
