# Fleet-MI300X: TLA+ specifications and proofs

The repository decodes DeepSeek-V2-Lite, one token at a time, with one persistent
GPU kernel on an MI300X: 8 chiplets (XCDs) of 38 workgroups that never return to the host
between layers.  Every workgroup walks a queue of *task descriptors* fixed ahead of time
(`src/host/taskgraph.py`), waits on *events* before a task and counts on an event after
it.  Nothing else orders the work of 304 workgroups over some thousand tasks per token:
if the protocol lets one workgroup through one count too early the kernel decodes garbage
with no error; if one count is missing it hangs.  Around the kernel stand tools that hand
each other files without a header: the weight packer, the reference run, the launcher.

Paths in this file are those of the repository (`src/...`, `reference/...`);
`PROJECT.json` prefixes them with the directory that holds the checkout.

## 1. Inventory

| component | state | operations | correct when | modelled by |
|---|---|---|---|---|
| **Runtime protocol** `runtime/fleet_runtime.h`, main loop of `kernels/fleet_kernel.hip` | global event counters, per-chiplet counters, per-chiplet mirrors of the global ones, abort word; per workgroup: token, queue position, place in the task | `fetch_task`, `wait_event`, `signal_event`, `arrive_last`, `run_scheduler`, `raise_abort`, token boundary, in-body waits | no task starts before its producers of *this* token; tokens do not overlap; schedulers outlive the waits they serve; an abort drains; every token is decoded | `FleetRuntime` |
| **Role claim** `claim_role`, the entry of `fleet_decode_step` | tickets per chiplet, barrier count, abort word, `__shared__` words | tickets, grid barrier, distribution check, the ways in and out of each role, wave by wave | every role is real and taken once, or everybody leaves | `RoleClaim` |
| **Task graph builder** `host/taskgraph.py`, the launcher's `build_queues` | descriptors, events, worker assignment | one block builder per part of a layer, one option per flag | enough edges for every buffer, no cycle through queues, counts that match the producers | `TaskGraph` |
| **Graph validation** `taskgraph.py: validate`, `main` | the built graph, the file, the exit code | build, finalize, emit, validate | accepts what it builds, and only graphs that can neither hang nor start early | `GraphValidation`, `GraphTool` |
| **Task bodies and activation buffers** `run_task`, `struct Activations` | `x[0]`, `x[1]`, `q`, `kv_a`, KV cache, partials, `expert_h`, logits, top-k, local copies, candidates, token ids; routing in LDS | one case of `run_task` per task kind | every read sees the value of this token and layer; no two workgroups race on a cell | `DecodeDataflow` |
| **Memory visibility on gfx942** fences, `--coherent-acts` | L1 per workgroup, L2 per chiplet, memory | acquire, release, plain and coherent loads | a counted store is visible to whoever saw the count | `Visibility` |
| **Weight packing** `host/pack_weights.py` | `weights.bin`, its manifest | open, write a tensor, write the manifest, die | the kernel's address arithmetic finds every row | `Packer`, `WeightLayout` |
| **Reference decode and cache conversion** `host/reference_run.py`, `host/kv_convert.py`, `host/reference_decode.py`, `reference/modeling_deepseek.py` | hidden states, key/value cache, rotary tables, hooks, three files | prefill, decode step, hooks, conversion, writes | the cache handed on is the model's, the tokens are the model's greedy choice | `ReferenceModel`, `ReferenceRun`, `GreedyDecode` |
| **Host decode loop** `host/fleet_launch.hip` | `epoch`, positions, token sequences, the cache, exit code | refusals, launches of up to `--tokens-per-launch`, repeats, teacher forcing, comparison | a launch leaves the counters where the next one assumes them; exit code 0 means a greedy decode | `FleetRuntime` (counters), `DecodeSession` (tokens) |
| Row partition, split-KV attention, top-k, argmax; weight prefetch; tracing and reports; model analysis; benchmarks; scripts | - | - | - | section 8 |

**Interactions.**  The host builds queues from the graph and launches the kernel; workers
communicate only through buffers ordered by events; a worker counts on its own chiplet,
the last one of the chiplet adds the whole share to the global counter; the scheduler of
each chiplet copies global counters to its mirror; workers poll the mirror.  The host sees
the kernel only when it ends, and starts the next launch on the same counters.  The tools
see each other only through files: `weights.bin` and its manifest from the packer; cache,
golden tokens and hidden states from the reference run.

**What is hard here** (each one is a row of `hazards` in `PROJECT.json`, at its line):
cumulative counters that are never reset, so one stray count shifts every later token; the
last-arriver elections on counters that all epochs share; mirrors written from a value
polled some time ago; schedulers that stop on the final event without knowing who still
polls; a body that abandons an inner wait and goes on to the next task; buffers that are
reused by every layer and token with no event of their own; K-chunks signalled wave by wave
without a barrier; the shorter last launch; payloads that are counted but sit in another
chiplet's cache; waves of one workgroup that see an abort at different times; a validator
that is the only thing between a graph option and a hang; files that are torn or belong to
different runs and have the right length all the same.

## 2. Modules

| module | models | extends / uses |
|---|---|---|
| `FleetRuntime` | the protocol and the launches, for any descriptor table | - |
| `TaskGraph` | the graph builder as pure operators, every option | - |
| `MCFleetRuntime` | `FleetRuntime` on the graphs `TaskGraph` builds from the shape in the cfg | `FleetRuntime`, `TaskGraph` |
| `DecodeDataflow` | the buffers the task bodies read and write, on top of the protocol | `FleetRuntime` |
| `Visibility` | the caches between the buffers; the specification of the whole kernel | `DecodeDataflow` |
| `ConflictOrder` | what descriptors must be like for bodies never to race, to be fed, and for chiplets to write back and to drop copies in time: conditions without states; the invariants the proofs on caches need | `Visibility`, `FleetInvariant` |
| `MCVisibility` | `Visibility` on those graphs | `MCFleetRuntime`, `ConflictOrder` |
| `RoleClaim`, `MCRoleClaim` | tickets, barrier, roles and exits | - |
| `GraphValidation` | `validate()` as predicates | `TaskGraph` |
| `GraphTool`, `MCGraphTool` | `main()` of the graph tool, the launcher's checks, one token of the kernel | `GraphValidation` |
| `Packer` | the packer's file and manifest | - |
| `WeightLayout` | what each tensor holds and where the kernel looks for it | - |
| `GreedyDecode` | the abstract promise: a text that grows by its likeliest next token | - |
| `ReferenceModel` | one forward pass of the stock model: cache, masks, rotary tables, dispatch | `WeightLayout` |
| `ReferenceRun` | `reference_run.py`: prefill, decode, hooks, conversion, files | `ReferenceModel` |
| `DecodeSession`, `MCDecodeSession` | packer, reference run and launcher over each other's files | `ReferenceRun`, `Packer` |
| `DataflowOrder` | the abstract promise of the protocol: arrivals in order, each after the waits of its task | - |
| `FleetInvariant` | the inductive invariant of `FleetRuntime`, in named parts | `FleetRuntime` |
| `Counting` | facts on sizes of sets and least elements that several proofs need | library theorems, TLAPS |
| `FleetRuntimeProofs`, `OrderProofs` | theorems about `FleetRuntime`: types, mirrors, the invariant and what follows; the refinement of `DataflowOrder`, races, inputs, writebacks and payloads | `FleetRuntime`, `FleetInvariant`, `Counting`, `ConflictOrder`, TLAPS |
| `RoleClaimProofs` | theorems about `RoleClaim` | `RoleClaim`, TLAPS |
| `SessionProofs`, `WeightProofs`, `DecodeProofs` | theorems about `Packer` and `DecodeSession`: the packer's file, the reference run and the types; what lies at the addresses the kernel computes; what the reference run decodes | `DecodeSession`, `Counting`, TLAPS |
| `LaunchProofs` | theorems about `DecodeSession`: what the launcher's exit code means | `WeightProofs`, `DecodeProofs` |

### FleetRuntime

| TLA+ | code |
|---|---|
| `global_events`, `xcd_counters`, `xcd_flags` | the arrays of the same name in `RuntimeState` |
| `abort` | `abort_flag`, reduced to "a reason was written" |
| `held` | the value a scheduler lane has loaded and not yet stored |
| `sched` | whether the scheduler has set `stop`, and whether it has left |
| `pc`, `tok`, `slot`, `inner`, `wave` | program point, token, queue slot, in-body waits passed, K-chunks each wave has signalled |
| `spun` | the 1024-poll checkpoint of the current wait was reached with the counter short |
| `epoch0`, `n_tokens` | `epoch` and the token count of the launch |
| `arrived` | history only: who counted on which event for which token |

A task takes the steps: wait (`PassBoundary`, `StartTask`), waits inside the body
(`PassBodyWait`), per-wave chunk signals (`SignalChunk`), the router's arrival and
publication (`ArriveRouter`, `PublishTopk`), the signal (`Signal`) and, for the last arriver
of the chiplet, the global add (`Publish`).  An atomic read-modify-write of the code is one
step; a poll and the store of the polled value are two.  `Checkpoint` and `GiveUp` are the
timeout and abort exit: before the body the workgroup leaves the kernel, inside the body
`run_task` returns false and the loop goes on without signalling, as the code does.
`Relaunch` is the host's next launch.  Counters are natural numbers (section 8).

### TaskGraph, GraphValidation, GraphTool

`TaskGraph` has one operator per function of `taskgraph.py`, threading the graph through;
descriptors carry the fields of `TaskDescriptor`.  All seven options (`kva_shared`,
`qc_published`, `topk_published`, `oproj_row_split`, `prefetch`, `local_fold`, `local_kva`)
and the split of an expert's workers into gate/up and down groups are modelled.
`assign_workers` is the round-robin of unpinned tasks, `finalize` computes `wait_count` and
`signal_xcd_count` from the emitted tasks.  Abstracted: row ranges, byte counts, the slices
of a prefetch descriptor (a number of tasks).

`GraphValidation` is every check of `validate()`, as conjuncts of `Valid`; the list of
messages is reduced to whether it is empty.  `GraphTool` has the steps of `main()` in their
order (`Build`, `Finalize`, `EmitFile`, `Validate`: the file is written *before* it is
validated), then the launcher's own tests and one token of the kernel, run in deterministic
passes.  `Edit` changes one field of one descriptor or event on the way: the ways a change
of the builder could break the graph.

### DecodeDataflow and Visibility

`mem` maps each *cell*, the part of a buffer one workgroup writes at a time, to the name of
the value it holds: `<<epoch, layer, stage>>`.  `ReadBy` and `WrittenBy` are the cases of
`run_task`: what a body reads and writes, split at the waits and arrivals inside it.  A
body's writes land when the workgroup moves past the part that makes them (`Land`); until
then the cell counts as being written.  `InputsAt`, `OutputsAt`, `ChunksOwed` and `AliasesOf` say it of a
task, a place in its body and an epoch, without a state; `ConflictOrder` builds on them.

`Visibility` adds `l1`, `l2` and `ram`.  `WorkerCaches` is what one step of a workgroup does
to them: the acquire of the wait it passed, the lines its loads fill, its dirty stores, the
release of its signal.  `event_fenced`, `AcquireOf` and `Releases` are the fences of
`wait_event`, `signal_event` and `arrive_last` and the launcher's `fenced_events`;
`Coherent` names the accesses that bypass the caches under `--coherent-acts`.  The hardware
is modelled from what the code says of it, in the worst case: no evictions, writebacks only
at releases, and the schedulers' extra fences left out since they only help.

### RoleClaim

Waves of a workgroup move on their own between `__syncthreads` (`Sync`), and a wave that has
returned no longer counts for its workgroup's barrier.  `TakeTicket`, `Arrive`, `PassBarrier`
and `CheckDistribution` are `claim_role`; `Enter` is the abort test each wave makes for
itself; `InitStop`, `TestStop`, `EndPass` are the `stop` word of `run_scheduler`; `EndWait`,
`Released` and `Signal` a worker's wait and `ok_smem`.  A `__shared__` word nobody has written
holds any value (`Reads`).  A worker's queue is one descriptor.

### Packer, WeightLayout, ReferenceModel, ReferenceRun, DecodeSession

`Packer` is the blob as words of two bytes: `Write` appends a tensor at the next 256-byte
boundary and records its offset; a packing may die before any step and be repeated.
`WeightLayout` has the order, interleaving and stride of every tensor as the packer writes
it (`PackedTensors`), and the addresses `layer_table`, `resolve_unit` and the row pointers
of the tasks compute (`PartReadable`, `WeightsReadable`).
`TearManifest` is a death inside `write_manifest`.  A cut before the name on a line is whole takes that
tensor and the ones after it away, and the launcher refuses the pair.  A cut behind the offset of the last line takes
away a number nobody reads.  In between lies the cut that is accepted: inside the digits of the last offset, where a
shorter number is left, or right before them, where `load_manifest` stores a variable it never wrote.
`load_manifest` is modelled with such a word taken from `StackWords`, `CutNumbers` are what a cut leaves, and
`manifest.lost`, which no tool reads, remembers the tensor for the properties.

`ReferenceModel` and `ReferenceRun` replace numbers by what they were computed from: a
hidden state is `[at |-> layer, seen |-> tokens]`, and anything computed from a wrong row, a
wrong distance or a wrong expert's output is `Garbage` for good.  That keeps the control
of the forward pass: cache growth, `past_key_values_length`, mask and size tests,
regrowth of the rotary tables per layer, the argsort and scatter of `moe_infer`, the hooks,
the slicing and rotation of `kv_convert`.  The run may die anywhere, also in the middle of a
file, and be repeated with other arguments.

`DecodeSession` adds the launcher's `main` (`StartLaunch` with every refusal, `DecodeToken`,
`NextLaunch`, `NextRepeat`, `Report`) and lets the three tools run one at a time in any order.
`LaunchAborts` is a kernel that raised its abort word.

## 3. Properties

*Protocol* (`FleetRuntime`):

- `NoEarlyStart`: whoever is inside a body, or past a wait in it, was released by the full
  set of producers of that very epoch.  Targets are numeric and counters cumulative; the
  property is stated over the history of who counted.
- `TokensDoNotOverlap`: no body of token k+1 runs while any descriptor of token k is
  unfinished on any chiplet.  Only the `EMBED` task of a later token waits for it explicitly.
- `SchedulersLeaveLast`: once a scheduler saw its stop condition no workgroup of its chiplet
  is at a wait, which the comment in `run_scheduler` argues.
- `CountersHonest`: a global counter never shows more arrivals than happened, although each
  chiplet adds its whole share at once.
- `MirrorsLag`, `MirrorsOnlyGrow`: mirror <= value held by the lane <= global counter, and no
  mirror ever decreases, across launches too.
- `CleanExit`: a launch that ends without abort counted every producer of every token exactly
  once: the next launch's targets are right.
- `CountsInOrder`: `FleetRuntime` implements `DataflowOrder`.  Without counters, mirrors, schedulers
  and launches, what is left is that producers arrive one token after the other, each once per
  token, in queue order, none before its task's waits are complete for that token and all
  awaited events for the tokens before.  Holds after abandoned waits too: a task that gave up does
  not arrive, and nothing that needs it does.
- `AllTokensDecoded`, `AbortDrains`: liveness.

*Buffers and caches*: `InputsAreCurrent` (a body reads exactly the values its place in the
model calls for), `NoDataRace` (no two workgroups work on a cell one of them writes, aliases of
`expert_h` included), `PayloadsAreVisible` (what the caches show is what was stored),
`OneDirtyCopy` (no two chiplets hold unwritten changes of one cell).  Behind them stand four
conditions on the descriptors, without an execution.  `RunsAreOrdered`: whenever tasks of two workgroups
touch a cell one of them writes, the events the one has waited for, directly or through
others, include one the other counts on when it is done with the cell, or one elects the two
against each other.  `StoresAreWrittenBack`: whenever tasks of two chiplets store to a cell, the events
the one has waited for include a mirrored one that the other's chiplet publishes after it.
`ReadersAreFed`: for each value a task reads, some task stores it, known to the reader to be done; and any
store of another value to the cell is known to that task to be done, or known not to be done while the reader
runs.  `CopiesAreDropped`: every store of another chiplet to a cell a task reads is one that its chiplet knew to be
written back when it last dropped its copies, at the start of that task or of one it comes after, or
one that is not made while the task runs.  They are stated of the body each workgroup is in (`KeptApart`,
`WrittenBackInTime`, `FedInTime`, `SeenInTime`), so a run that executes every task checks them for all: together
they are `ConflictsAreOrdered`, `WritebacksAreOrdered`, `InputsAreFed` and `PayloadsAreOrdered`, the hypotheses of
section 5, and `layers` checks all four of one graph.

*Role claim*: `RolesAreReal`, `NoSpuriousAbort` (a launch placed as assumed is never refused
for its placement), `WholeBlocksLeave` (everybody leaves who enters with its first wave or not
at all), `EveryoneLeaves` (what the code's comment says; section 7).

*Graphs*: `BuiltGraphsAreValid` (builder and validator agree on every option combination),
`AcceptedGraphsDrain` (an accepted graph, edited or not, that also passes the four tests
`validate()` lacks ends with empty queues and exact counts), `AcceptedWaitsAreEarlier`
(section 7).

*Files and tokens*: `ReadsBack`, `PackedAsRead` (in a blob the launcher takes, every word lies where the
kernel reads it; the tensor of the last line is excepted when the manifest was cut inside its offset, and no
other is), `FleetRowsAreHf` (the converted cache holds the
model's rows), `NothingRaises`, `HfDecodesGreedily` (`ReferenceRun` implements `GreedyDecode`:
decoding through the cache, layer by layer, is a model that rereads the whole text for every
token), `LaunchReproducesGolden`, `ExitZeroIsGreedy`.

`PROJECT.json` pairs every property of a passing run with a change of the modelled code that
breaks it.  `GiveUpAndGoOn`, `FirstArrival`, `SingleBuffer` and the like, marked *mutant* in the
modules, are those changes; no specification uses them.

## 4. Runs and bounds

Real constants: 8 chiplets, 37 workers, 4 waves, 27 layers.  The protocol treats chiplets
symmetrically except XCD 0 (embed, argmax, canonical residual), and workers symmetrically except
worker 0 and the round-robin, so two of each give every role and its neighbour.  An event's
arithmetic depends on the number of producers per chiplet and in all, and on the epoch; both
are at least 2 somewhere in the runs.  A run is either wide (workers, chiplets) or long (layers,
tokens, launches): interleavings of two workgroups over two layers and two launches on two
chiplets exceed what can be enumerated, and the graph's layers repeat one pattern, whose seams
(dense to MoE, MoE to MoE, last layer to LM head, token to token, launch to launch) all appear.

| run | shape | what it shows |
|---|---|---|
| `layers` | 2 XCDs x 1 worker; dense + MoE layer; shared kv_a, published top-k, `local_fold`; 2 tokens in one launch | protocol; the four conditions on the graph across layers and chiplets: order of conflicting tasks, of stores and readers, of writebacks and of the fences that drop copies (`PayloadsAreVisible` and `OneDirtyCopy` follow by theorem and are not repeated) |
| `options` | 1 x 3; gate/up and down on disjoint workers; 2 waves, 2 K-chunks; prefetch; `local_fold`, `local_kva`, published q_c and top-k; two MoE layers; 3 tokens in launches of 2 and 1 | in-body waits, early starts, order of conflicting tasks, chunked `expert_h`, current inputs, local copies, payloads that cross workgroups with an L1 invalidate only; exact counts for the next, shorter launch |
| `workers` | 2 x 2; MoE layer; row-split o_proj, published q_c and top-k; 1 token | elections among several workers of several chiplets; the order that the global merge event gives (`RunsAreOrdered`, `ReadersAreFed`, `CopiesAreDropped`; `NoDataRace` and `InputsAreCurrent` follow by theorem and are not repeated); liveness |
| `coherent` | 2 x 1; dense + MoE; `--coherent-acts`; 2 tokens | payloads without the global acquires, for which there is no theorem; one chiplet at a time with unwritten changes of a cell |
| `timeouts` | 1 x 3 split; 2 waves; any wait may be abandoned; 2 tokens | arrivals keep their order after an abandoned wait, in the body or before it; drain |
| `smoke` | 1 x 2; body-less mode, `direct_poll`; 2 launches of 1 | no early start over counters polled directly and chunks counted by the stand-in; mirrors lag and only grow across launches |
| `graph_tool` | 2 x 3; dense + MoE; every subset of the options, 2 chunkings, 2 splits; two option sets with every single-field edit; two orders of the workgroups | section 3, *Graphs* |
| `role_claim` | 2 XCDs x 2 workgroups x 2 waves, placed 2+2 or 3+1, one workgroup may give up waiting | section 3, *Role claim* |
| `decode_session` | 3-token prompt, dense + MoE layer, 2 experts; 2 packings, 2 reference runs, 1 launch; contexts 2 and 3, launches of 1 or 2, repeats, teacher | section 3, *Files and tokens* |
| `coherent_partials`, `graph_tool_selfwait`, `role_claim_mixed` | as above, each with one property | the findings of section 7 (expected violations) |

Names of the bounds in the cfg files: the shape (`NXcds`, `NWorkers`, `NWaves`, `QAbsSlices`,
`Layers`, `FirstKDense`, `Heads`, `KvChunks`, `TopK`, `KChunks`, `SplitWorkers`, `PrefetchTasks`),
`Tokens`, `PerLaunch`; `MaxPacks`, `MaxRuns`, `MaxLaunches`, and `MaxDigits`, the digits a cut may take from
an offset (those of the run's blob have at most four).  `StackWords` is 0 in the run, any set of numbers in the proofs.  In `DecodeSession` packings come
before the other tools (`PacksDone`) and no reference run is made to go with a blob the launcher
would refuse, and only one to go with a blob whose last tensor is lost (`WorthARun`): packing shares no file with the reference run, so neither hides an
outcome.  No state constraint and no symmetry is used.  Deadlock is checked everywhere but in
`decode_session`, where the bounds leave no tool to start; elsewhere a system that is done
stutters in an action of its own (`Finished`, `Returned`, `Refused`).

**Fairness.**  `FleetRuntime`: the kernel is launched cooperatively, so all workgroups are
resident and each keeps executing: weak fairness per workgroup.  A scheduler polls all its
events in every pass: a `Relay` is a poll that shows something new, or the store of it, so only
finitely many are possible before a counter moves, and weak fairness per chiplet serves every
event.  The host loop continues after a kernel ends: weak fairness of `Relaunch`.  A timeout is
part of the workgroup's step, so when `MayTimeOut` holds a workgroup may either pass its
wait or give up, and `AllTokensDecoded` speaks of executions without an abort.  `RoleClaim`: weak
fairness per workgroup, and per wave for the steps waves take alone.

## 5. Proofs

All theorems hold for every value of the constants the named assumptions allow, and TLC
evaluates each assumption in every run whose module extends the one that declares it.

### The runtime protocol

*Assumptions* (`FleetRuntime`).  `ConstantsAssumption`: the types.  `DescriptorAssumption`: what the
descriptor layout and `build_queues` guarantee whatever the graph.  `GraphAssumption`: what
`build_graph` and `finalize` produce and `validate()` looks for: every task is queued; tasks
are numbered in the order the data flows, so a wait is for earlier tasks; counts are those of the
producers and scopes match (`CountsOnce`, `SignalIsExact`, `WaitsAreExact`); only the embed task
waits for nothing; what someone waits for has producers and is itself followed, task by task, up to
the one final event; the last task of each queue signals something awaited.  It restricts no
shape, option, number of tokens or way of launching.  The graphs of all runs satisfy it.

`FleetRuntimeProofs` begins with:

- `TypeCorrect`.  `TypeOK` is inductive as it stands because it contains
  the one relation the steps need: a workgroup that has not left is at a position inside its
  queue, hence `Current(b)` is a descriptor.
- `MirrorsLagBehind`, `MirrorsNeverRunBackwards`.  `MirrorsLag` names the middle value, what the lane
  holds; without it a store of an old poll could not be shown to stay below the counter.

and goes on to `CountersMeanArrivals` (`Spec => []IInv`), and from it `NoBodyRunsEarly`,
`CountersNeverAhead`, `OneTokenAtATime`, `SchedulersOutlastWaits`, `LaunchesEndEven`.  None of the five is
inductive, and they need one another: a wait is released by a number, and the number
means "all producers of epoch k" only if no producer has run ahead to epoch k + 1, which is
what the waits prevent.  `FleetInvariant` says, in parts that are kept one lemma each:

| part | says | needed because |
|---|---|---|
| `Counts` | a chiplet's counter is the number of arrivals on it; a global counter the number in published shares | a target is a number; the elections compare the old value with it |
| `Fresh`, `Kept` | an arrival is of a body behind its workgroup or of the body it is in; what that body has counted is in the history | no arrival is counted twice, and a counter can be read back as a set |
| `NothingSkipped` | without an abort, every body behind has made its arrivals | a launch that ends has counted everything |
| `Places` | what a workgroup has done of its task at each program point | ties `wave`, `inner` and `pc` to the arrivals |
| `Gates` | whatever has arrived or started in epoch k found the epochs before k complete and published | only the embed task waits for the last token, all others through their waits |
| `WaitsOver` | whatever has arrived or started found its own waits complete | the chain back from the final event |
| `OnePublisher` | one workgroup at a time publishes a chiplet's share, a complete one | the global counter is raised by whole shares |
| `StopSeen` | a scheduler stops for a reason | schedulers outlast waits |

Two arguments carry the proof.  A counter that has reached k times its producers, with arrivals
of epochs up to k only, has every producer k times (`Full` of `Counting`); it is what turns each
poll into `AllArrived` (`Reached`, `LocalRelease`, `GlobalRelease`).  And the final event settles a
token (`DoneSettles`): take the awaited events that are not delivered, and among those who wait for
them the greatest task number; its own event is awaited by a later one.  The induction
theorems of the library take an operator as a parameter, which no installed prover can
instantiate, so `Counting` provides `Least` and `Greatest`, from the library's well-founded sets.

`OrderProofs`: `RuntimeKeepsOrder` (`Spec => CountsInOrder`).  Each step that changes `arrived` is one
`Arrive` of `DataflowOrder`, by `WaitsOver` and `Gates` for its guards and `Fresh` for its place in the
queue; all others stutter.  That epochs end at `Tokens` needs one more invariant, `TokensLeft`.

### Buffers and caches

`OrderProofs` goes on to the bodies.  The theorems have a hypothesis on the graph, of the
constants alone, which `layers`, `options` and `workers` evaluate for their graphs task by task (`layers` all of them); the
theorems then hold for any number of tokens and launches and for abandoned waits (those on values up to
the first of these), which no run can enumerate with buffers.
The hypotheses look at the first epoch only.  That this is enough is proved: of all cells
only the rows of the cache and the token ids have a token in their name (`FixedTasks`, `FixedReads`), so what is
stored, touched and kept apart in the first epoch is so in every one (`StoredAnyEpoch`,
`TouchedAnyEpoch`, `DisjointAnyEpoch`, `StoreShape`).

`OrderedGraphsDoNotRace` (`ConflictsAreOrdered`, no smoke: `VSpec => []NoDataRace`).

- `Known[i][at]` are the events whose waits a task at that place has behind it, and all that
  producers of those have waited for (`Upstream`).  While a body is there they are complete and
  published for its epoch (`KnownArrived`): a producer that arrived had waited (`WaitsOver`), and of the upstream events
  that are missing the one of the greatest task gives a contradiction (`UpstreamArrived`), given that
  `Upstream` names no event without a reason (`UpstreamIsJustified`; computed as a fold over the descriptors,
  it needs no induction then).
- `Over[i][at]` are the events a workgroup only counts on once it is past the place.  While it is
  there one of its arrivals on them is missing (`OverNotYet`, from `Fresh` and `Places`).
- Two bodies under way are of one epoch (`OneTokenAtATime`), so if one knows an event that the
  other's place has over, they are not there together (`NeverTogether`).  The exception is the
  top-k of a chiplet, which one router does after all have arrived: `TopkHeld` is an invariant of its
  own, proved from the election's arithmetic (`LastRouter`).
- If they may be together, `Disjoint` says that they share no cell; of chunks of `expert_h` only those not
  yet counted (`ChunkCounted`).

`OrderedWritebacksNeverClash` (`WritebacksAreOrdered`: `VSpec => []OneDirtyCopy`, with or without
`--coherent-acts`).  `OneDirtyCopy` is not inductive.  `DirtyHeld` says where a dirty line comes from (`Origin`): a
store of a task of the chiplet, in an epoch before which all is settled, that knew its `Known` events
and whose `Flushed` events, those the chiplet publishes after it, are not out.  It holds until the chiplet publishes any
event, since that writes all its lines back.  Two origins of one cell contradict each other: of different
epochs, the earlier one's `Flushed` events are settled; of the same epoch, one task knows an event
that is `Flushed` of the other.

`FedBodiesReadCurrentInputs` (`InputsAreFed`, no smoke: `VSpec => [](abort \/ InputsAreCurrent)`) and, without
timeouts, `FedBodiesAlwaysReadCurrentInputs` (`VSpec => []InputsAreCurrent`).  `InputsAreCurrent` speaks of the body
that is running; what a cell holds was decided by whichever workgroup stored to it last.

- A task stores from *sites*: the places of its body, and the chunks of `expert_h`, one by one (`SitesOf`).  A site of
  an epoch is `Done` once its workgroup is past it; the top-k of a chiplet, which any of its routers may store,
  once all of them are (`Peers`).
- The inductive invariant is `StoresHeld`: a store whose site is done, and which follows every other store to its
  cell that is done (`Precedes`: of an earlier epoch, or known by its place to be done), is what
  the cell holds.  This order is one of the descriptors, so nothing has to be remembered about the
  past of a cell.
- A step of a workgroup makes done exactly the sites whose stores land in it (`StoresLand`,
  `LandedIsStored`, from `WorkerPast`), and a site done later never precedes one done before: when it completes,
  all its known events have arrived (`CompletingKnows`), so all that must precede it was done (`StoreHeldStep`).
- For a reader (`HeldInputs`), the store that feeds it is done, because the events its place has waited for say
  so (`DoneByEvents`); any other store to the cell precedes that one, or is of a later epoch and so not
  begun (`NoLaterStore`), or is not done yet (`NotDone`).  The rows of the cache and the tokens of earlier epochs are
  stored once (`EarlierStoreHeld`).

An abandoned wait ends a body before its stores, so `Done` would not mean stored; hence the disjunct `abort`.

`OrderedPayloadsAreVisible` (`PayloadsAreOrdered`, no smoke, default fences: `VSpec => [](abort \/ PayloadsAreVisible)`)
and, without timeouts, `OrderedPayloadsAreAlwaysVisible` (`VSpec => []PayloadsAreVisible`).  The theorems above say what a
coherent memory would hold; this one says that the caches of the chiplets show it.  `OrderIsKept`
collects the invariants of the protocol, of `mem` and of the dirty lines; on top of them stand, one lemma each:

- A dirty line is of a store of its chiplet that is done and not flushed (`DirtyDone`), and its value is the cell's
  (`DirtyIsCurrent`): a later store to the cell by the same chiplet replaces the line, and another chiplet's must follow
  the writeback (`DirtyElsewhere`).  Where no line is dirty, memory is current (`RamIsCurrent`): the line that is
  written back last is the one stored last.  These hold together or not at all (`CachesHeldStep`).
- A line of an L2 is current or *stale* (`OldIsStale`).  `Stale(x, c)` does not speak of values: some other chiplet has
  stored to c since, and no task of x that has dropped its copies knew that store to be written back.
  A line becomes stale by the store itself (`DirtyMakesStale`), since whatever knows it to be written back cannot have started
  (`StartedKnows`); it stays so (`StaleStays`) until a task of the chiplet starts
  that knows; and the acquire of that task drops every line but the dirty ones, which are current.
- For a reader that cannot be: `SeenInTime` names a task of its chiplet that has dropped the copies (`Acquirers`), is known to have
  started (`AcquirersStarted`), and knew every store of another chiplet that is done; so no line it reads is stale
  (`NotStaleHere`), and with the line or memory current, it fetches the value that was stored (`ReadersSeeHeld`).
- Its L1 is dropped whole by every acquire.  After a step without one the body reads what it read before, or
  nothing, or is the embed, which waits for nothing (`KeptCopies`); and the token of an epoch is stored once, so
  a copy of it is never another one (`CopiesHeld`).

The theorem excludes `--coherent-acts`: there a wait on most global events drops nothing, the claim is about
which loads bypass the caches instead, and finding 1 is a graph that passes the condition and fails the claim.

### Role claim

`RoleClaimProofs`, for any number of chiplets, workgroups and waves, any placement and any set of
impatient workgroups (`RoleAssumption`): `RoleTypes`, `RolesHandedOutAreReal`
(`Spec => []RolesAreReal`) and `RightPlacementsPass` (`Spec => []NoSpuriousAbort`).  The inductive
invariant `IInv` counts: a chiplet's counter is the number of its workgroups past their ticket,
the grid's counter the number past the arrival (`Counted`); tickets of a chiplet are distinct,
below its counter, and one of them is 0 (`Tickets`); and without an abort whoever is past the
barrier knows that everybody has a ticket, whoever is past the check that its chiplet has
exactly `kBlocksPerXCD` (`Checked`).  The counter must be tied to a set because it is read while others still
bump it: a full barrier means the set of arrived workgroups is all of them, so the number read
afterwards is final.

### Files, weights and the reference run

`SessionProofs`, for any list of tensors of any sizes: `EveryTensorReadsBack`
(`PackerSpec => []ReadsBack`; the invariant adds that the file has even length and the
next tensor goes past all words written), and `AcceptedBlobsReadBack`.  The launcher takes a
manifest that names all tensors and has the length of the blob; the two may be from different
runs, either cut short.  Offsets are determined by the sizes of the tensors before
(`Placed`; two tables agree by least counterexample, `TablesAgree`), so a manifest of all
tensors whose length fits is right about a file of another run, as far as that one was written;
and it was written to the end, because the last tensor is not empty.  A manifest cut inside its last
offset passes the same tests.  So the invariant says that the manifest is such a table but for the offset it lost (`IsTable`),
and the theorem that it can have lost only that of the last tensor (`BlobReadsBack`).

`WeightProofs`, for every shape `LayoutAssumption` allows and the tensors `pack()` writes
(`PackAssumption`): `WeightsLieWhereRead` (`Spec => PackedAsRead`).  Three parts: every tensor of a layer
is among the packed names (`LayerNamesHas`, `FlattenKeeps`); the accepted blob holds it at its offset,
unless that was lost (`AcceptedReadsBack`, `TensorAt`); and the addresses of `resolve_unit` and the GEMV tasks are those of the
rows in it (`MlpAt`, `RoutedAt`, `SharedAt`, `DenseAt`, `QkvAt`).  The last is arithmetic on products of
sizes, which the provers do only when the products are opaque, hence the many named
words (`GateWord`, `UpWord`, `DownWord`).

`SessionProofs` again, for every model, prompt, context, number of decodes and number of runs, each cut short anywhere:
`ReferenceNeverRaises` (`NothingRaises`), `ConvertedRowsAreHf` (`FleetRowsAreHf`) and `SessionTypes`.
The invariant `RefInv` says for every stage of the run how long each sequence is and
which keys each dictionary has (`PhaseOK`, `Gathered`), which is what the mask and size tests compare; for the
rows, that what the hooks captured in the prefill is from the prompt's positions and stays
(`RowsOK`) while the decode appends rows and regrows the rotary tables.

`DecodeProofs`: `ReferenceDecodesGreedily` (`Spec => HfDecodesGreedily`), for every prompt, context, number of decodes, layers
and routed experts, and every model that answers in one vocabulary V: the hypothesis `SpeaksIn(V)` says that the
prompt is made of tokens of V, that the likeliest next token of a text over V is one of V, and that the router's
scores are numbers, which is what token ids, `argmax` over the logits and a softmax are.  Every step of the run is
mapped to `Start` or `Decode` of `GreedyDecode`, or to a stutter.

- The dispatch.  `moe_infer` sorts all pairs of position and choice by expert, runs the experts on
  consecutive stretches and scatters back.  The starts of the stretches are a running sum
  (`Starts`); that they are the number of choices of smaller experts (`StartsCount`) needs no induction theorem: the first expert at
  which it failed would follow one at which it held (`Least`).  So each place of the sorted list is in its
  expert's stretch (`RunOfPlace`), and each position gets the experts it chose, in its gate's order (`DispatchReturns`).
- A layer (`LayerAdvances`).  `Value(l, T, i)` is what position i of a text T is before layer l for a model without a
  cache.  If the cached rows are those of the text's first positions (`FreshRows`) and the new hidden states are values
  of the next ones, attention sees the whole text up to each position (`AttendReads`), and the layer gives the next layer's values.
- The run (`ValueInv`): in every stage hidden states are the values of the positions under way and the cache holds the rows of
  the text so far, all by the same rotary base; every generated token is the greedy choice after those before it.
  `RefInv` gives the lengths.  A forward's last value before the head has the whole text behind it (`NextIsGreedy`).

`LaunchProofs`, under the same hypothesis `SpeaksIn(V)` and for every choice of arguments, launches, repeats and aborts,
with the three tools cutting each other's files short: `ExitZeroMeansGreedy`
(`Spec => []ExitZeroIsGreedy`) and `WholeFilesReproduceGolden` (`Spec => []LaunchReproducesGolden`).  The first also
assumes that `Junk`, which stands for what is computed from anything but the text's own rows, is neither a token of V nor the torn
token `HalfToken`: that garbage does not give the right token by accident.  The runs choose it so.

- A token through the layers (`Layering`).  A row read at a layer is the text's at that place, or attention over
  it is garbage and stays garbage (`LayerSound`, `HiddenSound`); over the text's rows, on readable weights, every layer
  gives the text's value (`HiddenExact`).
- The files.  A cache file cut short is read under a smaller row count, so its words fall on other rows;
  still a row of the first layer is the text's at its place or nobody's (`CacheSound`, `BeginningsSound`).  Files that were
  written to the end hold the text's rows, tokens and hidden states (`CacheOf`, `TokensOf`, `HiddenOf`), and a run
  that is cut short leaves no more than a beginning (`FilesKept`).
- The launcher, over any files (`SoundInv`): rows of the first layer belong to the text fed or to nobody
  (`SoundRows`), a token is the greedy choice after the text fed or `Junk` (`SoundTokens`), a run without teacher feeds
  its own tokens (`OwnInputs`), and a code of 0 says that the tokens equal the golden ones (`Agreed`), which `Junk` never does.
  Only one tool is at work at a time (`OneToolAtATime`), so the files stay put under it.
- The launcher, over whole files of one run (`ExactInv`, with the packer's `IInv` and `PlacedInv`): rows, inputs,
  outputs and the dump are exact at every step, for every cut into launches and in every repeat, and all weights
  are readable because the blob was taken (`AcceptedReadsBack`, `LayerReadable`).

## 6. Only model-checked

- Liveness (`AllTokensDecoded`, `AbortDrains`) and whatever needs `ENABLED`: outside the proof system's
  reach.
- `AcceptedGraphsDrain`: it is about what a computation folded over all queues yields, an induction over data that the
  provers cannot do.
- `PayloadsAreVisible` under `--coherent-acts`; `BuiltGraphsAreValid`, and that the graphs of the builder satisfy the hypotheses of
  the theorems on buffers and caches: for the shapes and options of the runs.
- `WholeBlocksLeave`.

## 7. Findings

1. `coherent_partials`.  `runtime/fleet_runtime.h:248` says the consumer-side invalidate may be
   dropped because "every cross-XCD activation is read through an agent-scope atomic load".
   `stage_residual` reads the bf16 `expert_out` partials of all chiplets with plain loads
   (`kernels/fleet_kernel.hip:161`): with `--coherent-acts` a chiplet reads, in the third layer,
   partials of the second from a line its L2 has kept.  Only that option is concerned.
2. `graph_tool_selfwait`.  `host/taskgraph.py:693` says a task may only wait on an event all of
   whose producers appear earlier.  The test (`:712`) is `last_producer > t.index`, so a task that
   is itself the last producer passes.  No option of the builder makes such a graph.
3. `role_claim_mixed`.  `kernels/fleet_kernel.hip:947` says "wrong XCD distribution: everyone
   leaves".  Each wave looks at the abort word for itself: when the first wave of a scheduler leaves
   and another one looked earlier and went on, nobody initialises or sets `stop`, and the
   other wave may loop for ever.  `WholeBlocksLeave` shows that this is the only way to stay.

A behaviour that contradicts no line of the repository, but is worth knowing: a manifest cut inside the last
`tensor` line has every name and the right `bytes` scalar, so the launcher takes it (`fleet_launch.hip:166`, `:245`, `:601`) and reads
the last layer's MLP at a wrong address.  What it then decodes is compared like any other token: `ExitZeroIsGreedy`
holds over such manifests, `LaunchReproducesGolden` excludes them.

Two remarks of no consequence for a run.  `fleet_runtime.h:136` says of `FLAG_PUB_WAIT` that
"wait_count carries the publisher count"; the attention body waits for `kQAbsSlices` counts on
`local_event`, and `wait_count` holds the producers of the event before the body.  With row-split
o_proj `o` is read across chiplets by plain loads (`fleet_kernel.hip:809`), another load of the
kind of finding 1.

## 8. Not modelled

*Components.*  Row partition, split-KV attention, top-k and argmax are index and floating-point
reductions inside one body, with no state of their own.  Weight prefetch reads immutable data
into LDS.  Tracing, reports, model analysis, benchmarks and scripts are I/O.

*Inside the modelled components.*

- Counters do not wrap at 2^32; with 296 producers that is 14.5 million tokens of one process.
- The store queues of single waves.  `arrive_last` drains only wave 0's stores, which is enough in
  the shipped shapes: at most 64 routed rows over 37 workers are two rows each, both on wave 0.
- `direct_poll` is checked in smoke mode on one chiplet: nothing then holds the schedulers back, and with bodies the
  runs become too large.  The theorems of section 5 hold for either way of polling.  `FLEET_COH_KEEP`, a diagnostic, is not modelled.
- Graph edits are single; `report()` and the binary layout of the file are not modelled.
  What `validate()` does not test is part of `AcceptedGraphsDrain`'s premise and so visible there:
  a waiter that is its own last producer, the scope of a signal against its event's, shares
  against the arrivals a chiplet has, chunk events of another chiplet.  That the graph is on disk
  before it is validated is in `GraphTool`; whoever runs the tools by hand must heed the exit code.
- The launcher takes whatever fits by length.  `DecodeSession` shows what follows from that and
  what does not (`ExitZeroIsGreedy`); it does not compare `--context` with the context the cache
  was made for because the code does not.  Nor do the tools check the rope type, `topk_method` or
  `moe_layer_freq` of the configuration; the model fixes them to those of DeepSeek-V2-Lite.
- A manifest cut inside its last line is accepted, a cache cut at a whole position likewise; both are states of the model.
  A launch that faults on a wrong address ends like one that aborts.  `golden.npz`, `golden.json` and `weights.bin.json` are not modelled:
  the launcher does not read them.  `--smoke`, `--tokens 0`, `--first-token` (which replaces the token
  the golden file begins with, or stands in for a golden file that is not there) and timing statistics are left out of
  `DecodeSession`; so is `--decode 0`, which `reference_run.py` accepts and `np.stack` then raises on
  (`ReferenceAssumption` has at least one).
- Of the vendored model: training, expert parallelism, flash attention, beam search,
  group-limited gating.  Of `kv_convert`: `verify` and `main`, which no other part uses.
- Floating point throughout: rounding, and ties of near-equal logits.

## 9. Plan

Done: protocol, graph, dataflow, role claim, validation, caches, packing, reference, session; the
protocol's safety properties and its refinement of `DataflowOrder`, races, inputs, writebacks and
payloads of ordered graphs, files and weights, the reference run and the launcher's verdict on it, proved.

Next, in this order:

1. `BuiltGraphsAreValid` for every shape.
2. Store queues per wave in `Visibility`, with the router's `arrive_last`.
3. `PayloadsAreVisible` under `--coherent-acts`: a condition on which loads may stay cached.  A graph with two MoE
   layers cannot pass it as long as finding 1 stands.
4. The bodies' index arithmetic (row partition, KV chunks, argmax ties) against reference
   definitions.
