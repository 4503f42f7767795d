# Sasquatch Story Studio: TLA+ models

Sasquatch Story Studio turns a story into an animated episode. Its production
core is a small distributed system: jobs are queued, leased to workers, executed
remotely under authenticated single-use leases and recovered when a worker goes
silent; gangs of GPUs are reserved in a shared store; an episode is a sequence of
checkpointed stages; and a graph of revisions says what must be regenerated.
These modules model that core from the Python source in `src/studio/`. From
the creative side they model what holds state over time: the plan of an episode, its
shot packages and its graph, under edits of the story. Engines, prompts and publishing
are pure I/O and are not modelled. `PROJECT.json` lists every component, the source lines of every
definition, the runs, the mutants that each property is known to catch, the
hazards and the theorems.

## Inventory

| Part (`src/studio/`) | State | Operations | What is hard | What makes it correct |
|---|---|---|---|---|
| Scheduler core (`scheduler.py`) | `_jobs`: state, lease owner and deadline, bound GPUs, `queued_at` | `submit`, `choose`, `choose_on_worker`, `recover_expired`, `complete`, `requeue`, `fail` | sums over changing observations, ages that survive requeues, ties | exclusive GPUs, no overload, no overtaking, no eternal lease, one holder |
| Scheduler store and coordinator (`SQLiteSchedulerStore`, `coordinator.py`) | two SQLite files written at different times | `save`, `load`, `submit_stage`, `lease`, `complete`, `recover` | a crash or failed write between the two | a completed stage has its output, stays completed and is not done again |
| GPU-aware scheduler (`gpu_aware_scheduler.py`) | `_allocations` beside the core's jobs | the core's, wrapped | it selects GPUs for one job and leases another | disjoint allocations that follow the leases |
| Worker fabric, compute broker (`worker_fabric.py`, `compute_broker.py`) | none but scheduler, registry, executors | `submit`, `lease`, `dispatch`, `dispatch_distributed`, `recover_expired` | a late answer races recovery and a second dispatch | one result per task; the lease waited for is held |
| Remote authority and control API (`remote_worker.py`, `worker_control_api.py`, `worker_control_server.py`) | tokens, `_leases`, `_used_nonces` | `register`, `revoke`, `issue_lease`, `authorize_execution`, `complete_lease` | repeated, late, lost messages; revocation during execution | a lease runs once, is accepted in time, and never after revocation |
| Control plane, registry (`worker_control_plane.py`, `worker_registry.py`) | registry database, authority | `register`, `heartbeat`, `mark_unavailable`, `revoke` | late and reordered reports, revocation, restart from a saved copy | service follows accepted reports of enrolled hardware |
| Distributed GPU allocator (`distributed_gpu.py`) | per process `_allocations`, `_reserved`, next epoch; two tables shared by all | `plan`, `reserve`, `complete`, `release`, `fail`, `expire`, restart | several processes, failing updates, restart | gangs whole and disjoint, increasing fences, free GPUs are offered, GPUs come back |
| Gang execution (`distributed_execution.py`, `dispatch_distributed` of the fabric) | one gang under one allocation; nonces | reserve, lease, launch, collect, close, abort; the worker's handler and process | lost, late, repeated launches; expiry while the gang runs; one member fails | members start once and fenced; completed only when all succeeded; no GPU under two controlled processes |
| Episode pipeline (`pipeline.py`, `checkpoints.py`, `episode.py`) | `RunState`, one checkpoint file per episode | `run_episode`, `run`, `save`, `load` | handlers and saves that raise; crash and resume | durable stages are final; inputs are the latest |
| Stage runner (`stage_runner.py`) | none | `run_stage` | retry under an id the broker knows | a failed stage can be retried |
| Production graph (`production_state.py`, `production_graph.py`) | nodes with revisions, dependencies on revisions | `add_node`, `add_dependency`, `stale_nodes`, `assert_current` | dependencies outlive revisions; two notions of stale | acyclic, nothing stale goes unreported; episodes that stay independent, rebuilt nodes that are current |
| Artifact store, lineage, data plane (`artifacts.py`, `artifact_bridge.py`, `data_plane.py`, `distributed_artifacts.py`) | objects by digest, lineage rows, transfer state files | `put_file`, `commit`, `receive_remote`, `transfer` | sources that change between reads, racing writers, transfers resumed over what is left | a digest names its content; an address handed out resolves; transfers end |
| GPU evidence, admission, placement (`gpu_infrastructure.py`, `gpu_topology.py`, `gpu_capabilities.py`, `gpu_scheduler.py`, `gpu_placement.py`, `distributed_gpu_scheduler.py`) | none | probe, derive, admit, select, allocate | two probes that see different things; greedy choice against totals; ages | what is admitted serves the requirement, is found when it is there, and is not stale |
| Worker agents (`gpu_worker_agent.py`) | the access token | `register_remote`, `heartbeat_remote` | a host that changes, requests in any order | evidence in use is of enrolled hardware |
| Story and direction (`story_bible.py`, `interpreter.py`, `story_system.py`, `director.py`, `fidelity.py`, `scene_storyboard.py`, `production_graph.py`) | none of their own: texts, bibles, readings, plans and packages handed from call to call | interpret, draft, reorder, package, materialise | results of different versions side by side; dialogue bound in four ways | plans tell their reading, all of it and in its order; packages of different numberings never mix; only what changed changes |

How they interact: the fabric's `dispatch` asks the broker for a lease (the
broker calls `choose_on_worker` of the one scheduler for the workers the registry
has as available), runs the task through an executor, local or remote, and settles
the job with the scheduler by worker name. The remote executor obtains a lease of
the authority and posts it to the worker's control API, which asks the authority
twice, before and after the execution. The coordinator is a second client of the
same scheduler class with its own durable rows. The pipeline calls stage handlers,
which call the stage runner and so the fabric. Nothing in the source locks the
scheduler, the registry or the authority: drivers poll (`recover_expired`,
`expire`), and each call completes before the next begins. `dispatch_distributed`
reserves a gang with the allocator, has the authority issue a lease per member, and
posts them to the workers' `execute-distributed` handler, which checks lease,
allocation and fence before it starts a process. Agents probe their host and report
to the control plane, which derives from the report the state that makes a worker
eligible for the broker. Outputs are committed to the content store, by the worker
that made them or by a receiver that transferred them. Before all of this, the
language model's reading of a story becomes a plan, the plan a graph of revisions.

## Modules

| Module | Models | State and actions |
|---|---|---|
| `JobLifecycle` | what the scheduler promises a caller (abstract) | state and holder of a job; `Accept`, `Grant`, `TakeBack`, `Finish` |
| `Scheduler` | `scheduler.py` but `choose` (which is in `SchedulerDrivers`) | `jobs` is `_jobs`, `now` the argument of the same name; one action per method |
| `SchedulerDrivers` | the four ways `scheduler.py` is driven: the broker, the coordinator, `choose` over a pool, the GPU-aware wrapper | extends `GpuAwareScheduler`; `driver` fixes which one a behaviour uses |
| `StageCoordinator` | `coordinator.py`, `SQLiteSchedulerStore` | extends `Scheduler`; `stages` in memory, `dbJobs` and `dbStages` on disk; `SaveStage` may raise; `SaveScheduler`, `Restart` at any time |
| `GpuAwareScheduler` | `gpu_aware_scheduler.py` | extends `Scheduler`; `alloc` is `_allocations` |
| `RemoteDispatch` | fabric, broker, authority, execute handler, network | extends `Scheduler`; dispatcher threads with program counters, messages that stay in the network until used, so they can be repeated or lost |
| `GpuAllocator` | `distributed_gpu.py` | `rows`, `taken` the two tables; `mem`, `held`, `epoch` per process; one action per transaction, failing ones included |
| `GangCommit` | what a gang promises its caller (abstract) | members, progress and outcome per gang; `Form`, `Start`, `End`, `Complete`, `Abandon` |
| `GangExecution` | `dispatch_distributed`, `distributed_execution.py`, the `execute-distributed` handler | extends `GpuAllocator`; `gang` is a dispatch's place in its code, `posts` the requests (kept, so that they may come late or twice), `spent` the nonces, `progress` the processes |
| `ContentStore` | what the artifact store promises (abstract) | stored, indexed and issued contents, which only grow |
| `ArtifactStore` | `artifacts.py`, `artifact_bridge.py`, `data_plane.py`, `distributed_artifacts.py`, the chunk endpoint | `files`, the transfer's state file `recorded`, `objects`, `lineage`; per actor the place in its call; faults interrupt and kill |
| `GpuCapabilities` | probe, derivation, admission, selection, gang selection | functions of observations; `Serves` says directly what they should return |
| `WorkerControl` | agents, control plane, authority's identity part, registry and its store, the broker's choice | extends `GpuCapabilities`; `mail` is what is on its way, so that reports are lost, late and reordered; `Selectable` are the workers the broker may choose, whose ranking is left open |
| `StoryPlanning` | bible, interpretation, draft, reorder, packages, production graph | `text`, `bible`, `reading`, `plan`, `packages`, `graph`; one action per call that goes through |
| `EpisodeJournal` | what a checkpointed episode promises (abstract) | a journal of results that only grows |
| `EpisodePipeline` | `pipeline.py`, `checkpoints.py`, `episode.py` | `mem` is `Pipeline.state`, `disk` the checkpoint, `pc` where `run` is |
| `ProductionState` | `production_state.py` | `nodes`, `dependencies`; `AddNode`, `AddDependency`; reachability by closure |
| `ProductionSearch` | the two searches as written | recursive functions of the number of turns, with the code's queue and stack |
| `Recursion_proofs` | lemmas about numbers: least numbers, induction, recursion, sets listed in order | used by the proofs of searches, rounds and lists |
| `Scheduler_proofs` | theorems about the scheduler core, the coordinator, the four drivers and remote dispatch | extends `StageCoordinator`, `SchedulerDrivers`, `RemoteDispatch` |
| `GangExecution_proofs` | theorems about the allocator, alone and under gangs | extends `GangExecution` |
| `ProductionState_proofs`, `ArtifactStore_proofs`, `EpisodePipeline_proofs`, `WorkerControl_proofs`, `StoryPlanning_proofs` | theorems about the module each is named after (of the production state, the searches too) | extend it |

`MC*` modules give the constants of a small instance. Definitions whose comment
begins "Mutant of" or "A fault" are plausible bugs: substituted for the definition they are
named after, they make TLC report the property listed with them in `PROJECT.json`.

### Abstractions worth knowing

- A job's requirements are `Demand`, an additive measure of *sets* of jobs. The
  scheduler only ever compares sums with observations, so this loses nothing, and
  it lets the theorems speak of every requirement without a recursive sum.
- Capabilities and engines are the set of jobs a worker `Supports`. Observations
  of a worker are any of `Offer[w]` at each call: they change between calls.
- `choose_on_worker` gets the GPUs a caller placed as any subset of `Gpu`.
- In `RemoteDispatch` the broker's ranking of workers is any order, GPUs are left
  out, and a refused authorization is a transport error to the dispatcher.
- In `GpuAllocator` the choice among groups of workers (network, placement) is any
  group of the right size. The evidence bound to an allocation is left out.
- In `GangExecution` a lease is the pair of its allocation and its worker: each has a
  nonce of its own and is issued from the allocation, so its fence, ranks and expiry are
  the allocation's. The worker's look-up of the allocation is deployment code (a callable
  handed to `WorkerControlServer`); it is taken to read the coordinator's process.
- In `ArtifactStore` a file is a sequence of blocks and stands for its own digest.
  `transfer` is `receive_remote` with a local file for the worker. Disks lose nothing
  that was written.
- In `GpuCapabilities` digests and telemetry that decide nothing are left out, and a
  compute capability is its place in their order. In `WorkerControl` one handler runs at
  a time, and all observations are of one time: no placement looks at their age.
- In `StoryPlanning` a digest stands for what it was taken of, and checks of wording,
  durations and prompts are left out. Calls that raise change nothing. A reading is in
  chronological order when it is drafted (`validate_interpretation` demands it), so that
  sorting its events and scenes leaves each at the place where it first comes.
- In `EpisodePipeline` a missing handler is the stop `Leave`. Handlers return
  values and do not change the `RunState` they are given. A process that dies
  between changing memory and replacing the checkpoint file is one that died
  before the change.
- In `ProductionState` kinds other than series and episode are one kind; data and
  hashes are left out.

## Runs

| Run | Distinct states (about) | Bounds | What it shows |
|---|---|---|---|
| `scheduler` | 180,000 | 3 jobs of different width, 2 workers, 2 GPUs, clock to 3, four drivers, a pool that supports all jobs and one that supports two | exclusive GPUs, capacity and power, order, the wrapper's map, lifecycle and liveness |
| `stage_coordinator` | 2,250,000 | 2 stages, 1 worker, 2 outputs, clock to 2 | durable stages under saves, failing writes and crashes |
| `remote_dispatch` | 1,660,000 | 1 job, 2 dispatchers, a remote worker, a local one and one without executor, 2 registrations, 2 remote leases, clock to 2 | single execution, revocation, one result, the lease waited for |
| `remote_server_clock` | violation | 1 dispatcher | the HTTP server accepts a completion after the deadline |
| `gpu_allocator` | 119,000 | 1 or 2 processes, 3 GPUs on 2 workers, gangs of 2, 2 allocations, 3 epochs, clock to 2, updates that may fail or not | the store is whole; fences, beliefs that agree with the store, return of GPUs |
| `gpu_allocator_now` | violation | 1 process | as the source stands no reservation is made |
| `gang_execution` | 764,000 | 1 process, 2 workers of a GPU each, gangs of 2, 2 allocations that may follow each other on the same GPUs, clock to 2, failing updates, a worker that may be revoked | fenced and single starts, commit of a gang, GPUs with one controlled user |
| `artifacts` | 185,000 | an artifact of 2 chunks, 2 receivers or a receiver and a producer of 2 files, 5 left-over destinations, 2 faults | the content store, planned digests, transfers that end |
| `worker_control` | 358,000 | a worker of 3 unequal GPUs in 3 conditions, one of 2 GPUs from an earlier run, 2 registrations, 2 messages, 11 requirements | evidence of current hardware, service, placements, gangs |
| `episode` | 336,000 | plan: 2 texts, 3 bibles (one invalid), 4 readings (1 refused), 3 events, 2 packages; graph: a series, 2 episodes, a node of either, 2 revisions; pipeline: 3 stages, 2 results or none | plans and their chronology, packages, graphs; searches, acyclicity, staleness; the checkpoint is a growing journal |
| `never_silent` | violation | one reading | a line nobody hears of, events told in another order |
| `regeneration` | violation | as the graph of `episode` | a rebuilt node that is refused, in an episode that depends on another |

The plan, the graph of revisions and the checkpoint of an episode share no state. `MCEpisode`
checks them side by side: a behaviour takes the steps of one while the others rest, and the
fairness is the pipeline's.

Why these bounds are enough to be of use: two workers and three jobs are what a
stale lease, a second holder and a job in the queue need at once; the clock lets a
lease run out and be granted anew; one bounded queue position per age difference
decides every tie. Two remote leases are an original and its replacement, two
registrations the one before and the one after a revocation. Two allocations of
overlapping gangs with three epochs cover reuse after expiry and a restart in
between. Two gangs of two members over the same GPUs
are the one that times out and the one that follows. Two chunks are one done and one not,
and the two teams two writers of one destination and two writers of one object. Three
conditions of one host are a change of health, a change of hardware and the way back.
Three events over two scenes let a scene be cut by another. Three stages have a
predecessor, a current one and a successor. Two revisions are enough for a dependency to be old, and four nodes for a cycle that
is not a direct one. Every action of every next-state relation of a passing run occurs in one, and
every property of a passing run is violated by at least one mutant under its own bounds.

The clock stops at `MaxTime` in every model. A lease that would end later is not
granted, so liveness is never satisfied by the end of time: a granted lease always
can expire.

### Fairness

- `scheduler`: time passes (`Tick`) and the driver polls `recover_expired`.
  `WorkerFabric.recover_expired`, `ProductionCoordinator.recover` and
  `GpuAwareScheduler.recover_expired` exist for that poll; nothing else is fair.
- `gpu_allocator`: time passes and each process polls `expire` (`plan` calls it
  first, so does every client that looks for GPUs).
- `artifacts`: a call that has begun goes on, and a caller tries again what failed
  (weak, per actor); faults are bounded and never fair.
- `episode`, its pipeline: `run` goes on by itself (weak), and an episode is resumed
  again and again, handled again, and in the end returns and is saved (strong):
  the property is what the code adds to a stage that can succeed. No fairness is
  given to crashes, failures or `RunAgain`.

### What the checked properties assume, said plainly

- `gpu_allocator` takes the unbound name `now` in `_available_workers` as bound
  (`NowBound = TRUE`): with the source as it stands no reservation is made, which is
  what `gpu_allocator_now` shows, and nothing else about reservations could be.
- `FencesIncrease`, `HeldIsTaken` and (a theorem only) `FinalIsFinal` are promises of
  one process over its store; two processes break each of them, because each loads the store
  only when it starts, counts epochs on its own and updates rows by allocation
  alone. `GpusComeBack` is a promise of updates that succeed: after a failed one
  the process believes the allocation closed and only a restart frees its GPUs.
  `GangsWhole` and `HeldIsKnown` hold for all of these.
- `CompletedHasOutput` and `HandoffKept` except stages one of whose handoff writes
  has raised; `complete` has then changed the scheduler and cannot be repeated.
- `AwaitedLeaseHeld` excepts a call that overlaps an older one for the same job on
  the same worker: the scheduler knows a lease by its worker's name only, so the
  older call may settle the newer lease.
- The runs of `RemoteDispatch` complete with the time the request arrived, as the
  deployed `worker_control_server.py` does (`CompletionClock = "start"`), so a lease may
  be accepted after its deadline; `worker_control_api.py` reads the clock again (`"now"`).
- `EvidenceEnrolled` compares with the hardware of the token in force. Without one (after
  a restart or a revocation) it demands hardware that was enrolled at some time.
- `ServiceFollowsReport` allows a revoked worker to register again: its enrollment token
  survives `revoke`, so a late registration brings it back, and a late heartbeat does not.
- `AnyJobInOrder` is for callers that ask for any job. A broker asks for one by id.
  Of `choose` over a pool it demands the order only between jobs that also ask no more
  of where the pool may run them (`NoHarderInPool`): the pool is seen as one resource.
- `GpusOneUser` excepts processes beyond their coordinator's control: the call to the
  worker failed, the coordinator died, or the allocation ended by time. Nothing stops a
  process whose allocation ends; the fence only keeps it from starting.
- `PlacementsServe` and `GangsServe` demand that what can be served is served only for
  requirements that speak of GPUs one by one and of NVLink: no second group is tried for
  the sake of the total memory, the collective test or the fabric. `GangsServe` excepts
  a gang of one GPU as well: it would be of one worker, and is refused whatever is there.
- `TransferEnds` is for destinations that are not longer than the artifact: a longer one
  is never shortened and fails its final verification for ever.

## Findings

Each is a run that TLC ends with a violation, and the code lines it is about.

1. `remote_server_clock`: `worker_control_server.py:126` completes a lease with the
   time at which the request arrived, so the deadline is never enforced there.
2. `gpu_allocator_now`: `distributed_gpu.py:295` uses an unbound name; every plan
   with an active healthy worker raises `NameError`.
3. `regeneration`, two findings in one trace (the property is violated only where neither
   promise is kept): `production_state.py:100` accepts a revision that moves a node into
   another episode, dependencies and all, where `add_dependency` (L113) refuses one
   (nothing is recorded upstream of the series in what is demanded); and `assert_current`
   (L163) refuses a node for its dependencies on older revisions, so one rebuilt on
   current ones is refused for ever, although surgical regeneration is what the module is
   for (L4-5, L129-133).
4. `never_silent`, two findings in one trace: a line of dialogue that names no scene, or one
   that no event is in, is on no shot and not up for review (`director.py:45`), and the
   events of a scene that another one cuts are brought together (L25) and so told in another
   order, although the director "never silently creates, removes, reorders, or changes
   canon" (L13-14).

Remarks that no run checks, met while modelling:

- Coordinator: a stage's output becomes durable at once and its completion at the next
  save of the scheduler. After a crash in between the output is laid over a queued job,
  which is leased again (`coordinator.py:72`; `docs/ARCHITECTURE.md:15` says a completed
  stage is not rerun). When the handoff write raises after `scheduler.complete`, the output
  reference never becomes durable.
- Allocator: `_candidate_gpus` (`distributed_gpu.py:238`) offers one GPU per worker, so with
  `now` bound, too, a gang larger than the number of workers is refused, where
  `tests/test_distributed_gpu.py:119-125` reserves eight GPUs over two workers and L329-331
  distributes the remaining ones. `RoomIsFound` counts free GPUs, so it would fail on that.
- Scheduler: `requeue` keeps `queued_at`, so a more important job that its worker keeps
  giving back can keep an older one waiting (`scheduler.py:170`).
  `tests/test_scheduler_intelligence.py:29` expects newer, more important work to go first
  after one ageing interval, where the sort key of `scheduler.py:185` lets the older job
  win the tie. `GpuAwareScheduler.choose_on_worker` records the GPUs selected for the
  first queued job by id for whichever job the core then leases, which may need more.
  `complete`, `requeue` and `fail` know a lease by its worker's name only.
- Stage runner: when a stage whose dispatch did not complete is run again under the same
  task id, the broker's `submit` refuses the id, since it knows it (`stage_runner.py:66`).
- Gang: a dispatch may report `completed` although its allocation expired meanwhile; a
  second SQLite error while the failed allocation is closed propagates to the caller.
- Artifacts: of two producers with the same bytes the later lineage row replaces the
  earlier; `ReplicaManifest.record` reads and rewrites its file without a lock
  (`artifacts.py:148`; nothing calls it).
- Worker control: placement gives admission neither the time nor a limit on age
  (`compute_broker.py:76`), so evidence never expires, and a heartbeat that reports other
  hardware is refused (`remote_worker.py:233`) and leaves the worker in service on its old
  evidence; the GPU capability design (`docs/specs/`, L152, L126 and L155) says neither may
  be. A late heartbeat with an older observation overwrites a newer one of the
  same hardware; a worker whose probe changes from NVML
  to nvidia-smi changes its identity; a registration of a worker the registry does not know
  fails with the new token in force; after a restart workers are in service that no
  authority knows; a gang of one GPU is refused.
- Story: a reordering of a drafted plan only ever renumbers, since each shot depicts one event and the order of events may not
  change; an event with `required=False` makes every draft fail; a line bound to two shots
  appears in both, and the storyboard then refuses the plan; a package is compared with
  the events of its scene, not of its shot.

## Proofs

`Scheduler_proofs`, for any jobs, workers, GPUs, resources, demands and offers, from
the named assumptions of `Scheduler` (ids are numbers, demand and power additive):

- `TypeCorrect`. `TypeOK` is inductive as it stands because it says which lease
  fields are set in which state.
- `GpusNeverShared`, `WorkersNeverOversubscribed`, `PowerNeverOversubscribed`. Each
  invariant is inductive together with `TypeOK`. One lemma, `LeaseStep`, says what
  any call that leases does to the leases; the others can only shrink the set of
  leased jobs, and `DemandMonotone` and `PowerMonotone`, from additivity, say that a
  smaller set demands no more.
- `AgeIsKept`, `NeverOvertaken`: action properties from `TypeOK`. `OlderComesFirst`
  is the arithmetic of ageing: of two jobs the older and no less important comes
  first, at any time and with any interval.
- `LifecycleImplemented`: each step maps to a step of `JobLifecycle` or a stutter.

The same module, about the three kinds of users of the scheduler's core.
`StageCoordinator`, with `HandoffAssumption` (`None` is neither a stage nor an output),
for any order of saves, failing writes and restarts: the invariant says which of the two
files may be ahead. Memory is never behind the scheduler's file (`MemoryAhead`), and the
handoff rows are those of memory but for jobs whose write raised (`RowsCurrent`).
`CoordinatorTypeCorrect`, `OutputsAreDurable` and `HandoffsAreKept` follow.
`SchedulerDrivers`, for any pools, observations and GPU selections: whatever the driver, a
step lets go of leases or adds one that fits what its caller observed.

- `DriversTypeCorrect`, `DriversShareNoGpu`, `LeasesAlwaysFit` from that and the lemmas
  about the core; a pool's bound holds of all its workers together.
- `WrapperAlwaysAgrees`: the map has an entry for exactly the leased jobs, so a GPU free
  in the map is free among the leases, whichever job the core then leases.
- `DriversKeepOrder`: the job leased is the first that fits, and a job no harder than one
  that fits does fit (`NoHarderFits`); for a pool this needs `NoHarderInPool` too.
- `DriversImplementLifecycle`: the safety half of `ImplementsFairLifecycle`.

`RemoteDispatch`, over the scheduler's type lemmas, for any jobs, workers,
dispatchers, deadlines and deliveries. The invariant follows a lease through its life: it
is outstanding, accepted or barred, never two of these, its id names it in all three, and
a spent nonce is an execution.

- `RemoteTypeCorrect`, `ExecutedOnce`, `RevokedStaysRevoked` follow from it.
- `CompletedOnce` needs in addition that a result's job is completed in the scheduler,
  which is final (`ResultInv`), and that an answer goes back to an accepted lease.
- `LeaseHeldWhileAwaited` needs `Alone`: a call that began as the only one for its job
  and worker stays the only one until its deadline, because the job is leased.

`GangExecution_proofs`, for any processes, workers, GPUs, gang sizes and deployments, from
`AllocatorAssumption` (processes and GPUs are finite sets; `None` is not an id or a row)
and `ExecutorsAssumption`. `TableStep` says that every action, of the allocator alone or of
a gang, closes allocations (in memory `D`, in the store and the reservations some `S` of
it: updates may fail), makes one, loads the store, or uses up an epoch at most. What
follows of `TableStep` is proved once and holds of both specifications.

- `AllocatorTypeCorrect`: needs `MemStored`, that what a process knows of is stored:
  otherwise it could close a row that is not there.
- `GangsAlwaysWhole`: inductive with these two, for several processes with old copies.
- `HeldAlwaysKnown`: needs `HeldByHolder`, that a process has a GPU as held by the very
  allocation that reserved it; else closing another allocation could free it. A restart
  restores it because gangs in the store are disjoint, by `GangsWhole`.
- `FencesAlwaysIncrease`, `FinalStaysFinal`: one process over its own store. `Numbered`
  says that allocations are numbered in the order they are made, with growing epochs
  that the process is past; `FinalKnown` that it has no closed row as reserved. Both
  fail with a second process, and the properties with them.
- `HeldAlwaysTaken`: one process. What it believes held is taken in the store, because it
  closes what it knows as reserved and reloads all; a failed update keeps the rows and a
  closing that succeeds frees both.
- `GangsTypeCorrect`, `GpusHaveOneUser`, `StartsAlwaysFenced`: any number of processes.
  `Requested` says that processes and answers come of requests, and where the dispatch of
  an unanswered request may be; `Fenced` that before an allocation's time is up its own
  process does not take a closed one for reserved. So what a worker accepts is reserved
  in the store, and by `GangsWhole` no other allocation has a GPU of it; a process that
  outlives its allocation is one its coordinator has lost.
- `GangsCommit`: each step maps to one of `GangCommit` or a stutter. It is a theorem of
  one control process (`Alone`): the store's update is keyed by the allocation alone, so
  that two processes that restarted between each other's reservations can both close one.

`ProductionState_proofs`, for any nodes, identities and number of revisions:

- `StateTypeCorrect`: dependencies are between known nodes and name revisions that
  exist; needs that revisions only grow (`OnlyForward`).
- `NeverDownstreamOfItself`: acyclicity stated without paths. `WellFounded` says
  every set of nodes has one with no upstream in the set; it is inductive because
  `AddDependency` refuses an upstream reachable from the downstream, and it implies
  the property because the nodes that reach themselves would each have an upstream
  that does (`ReachableHasUpstream`).
- `StaleReported`, `StaleForEver`: action properties. A revision makes stale only
  what depends directly on the node revised; an old dependency is never removed and
  a revision never returns, so a stale node stays stale, rebuilt or not: the one half of
  finding 3, for any number of nodes.
- `SearchesAlwaysExact`, for graphs of any size: each search is a function of the number
  of its turns, and the claim an induction over them. A turn of `stale_nodes` keeps that
  each node was returned once, with a reason returned before, that whatever is queued was
  returned, and that the dependents of what has left the queue were returned (`Searching`,
  `VisitSearches`); each turn takes a node from the queue and each is queued once, so the
  loop ends. For `_would_cycle` (`Walking`, `ExploreWalks`) each link of a visited node
  takes a place on the stack once, which bounds its turns; a visited set without the sought
  node, closed under dependents, shows that there would be no cycle. Only finitely many
  nodes are known, since each call adds one at most (`KnownFiniteStep`).

`ArtifactStore_proofs`, with `StoreAssumption` (the artifact is not empty). The invariant
adds the place of each actor in its call: what is about to be recorded is stored, and what
is about to be linked was copied with the digest it was hashed to.

- `ObjectsAlwaysNamed`: an object has its content's name, although sources change.
- `PlannedDigestAlways`: a transfer hands out the planned digest or raises.
- `StoreImplemented`: each step is one of `ContentStore` or a stutter.

`EpisodePipeline_proofs`, for any number of stages. `MemoryDurable` and `DiskDurable` say
of memory and of the checkpoint alike that the completed stages are the first ones and the
outputs those of their last handlers, and `Ahead` that memory is not behind the checkpoint.

- `AlwaysHandledOnItsInputs`: what a handler reads may have been written by any earlier
  run, so the claim needs the outputs of the checkpoint, and that a stage without a
  completed mark has no stale output that a later `None` would leave in place.
- `JournalImplemented`: each step extends the journal at its end or leaves it.

`WorkerControl_proofs`, for any workers, hosts, tokens, requirements and order of
requests, from `ControlAssumption` (records of an earlier run report their own worker, as
`WorkerRecord.__post_init__` demands, and were in service only on evidence without a
failure, as `_apply` leaves them), `HostAssumption` (the GPUs of a host have different
UUIDs, `gpu_infrastructure.py:166`), `RequirementAssumption` (a requirement asks for a
GPU at least, `hardware_requirements.py:34`) and `AllocationAssumption` (`None`, which
stands for a refusal, is no allocation).

- `EvidenceAlwaysEnrolled` needs that the saved copy is of enrolled hardware, that every
  request reports its sender (`MailOwn`) and that a token in force is of the hardware the
  registry has (`TokensCurrent`);
  `ServiceAlwaysFollowsReport` is an action property from it.
- `PlacementsAlwaysServe`: both halves. What is admitted serves (`AdmittedServes`): the
  group found first exists (`FirstOfIsOne`: by the least place at which no group would be
  first) and has as many different GPUs as asked for. And what would serve is found
  (`ServableAdmitted`): its places, listed in increasing order (`ListedAll`: by the least
  size at which no list would exist), are one of the groups the search tries. The claim is
  about whichever eligible worker the broker ranks first.
- `GangsAlwaysServe`: both halves, for any number of workers, GPUs and rounds. A worker's
  turn adds one fit GPU that it has not given, or nothing, and then there are enough or
  it has no other (`SelectOne`, `ExtendStep`). By induction over the turns a round leaves
  fit GPUs, never too many, and one more unless none of those asked has another
  (`RoundIs`); the first asks all, each for one, so that two workers give when two can
  (`FirstRoundAsks`, `OnesNeedTwo`). By induction over the rounds (`RoundsGive`,
  `RoundsGiveAll`) there are enough in the end or every fit GPU has been given.

`StoryPlanning_proofs`, for any texts, bibles, readings, decisions and order of calls,
from `ReadingAssumption` (the events of a reading are a list). The inductive invariant
(`PlanInv`, `GraphInv`) says that the plan, and the graph's plan, is that of its reading
with the shots of some set of scenes numbered by their places (`Revised`). This is so
because `reorder_shots` may not change the order of the events and each shot depicts an
event of its own (`OrdersAgree`), so that it can only renumber. `ScenesAre` and `EventsAre`
say what drafting makes of a chronological reading: each scene once, in the order of
their first events, and in it all its events in order.

- `ChronologyAlwaysKept`: the events and scenes of a revised plan do not depend on which
  scenes were renumbered, nor do the ids of its shots, and the numbers of its shots grow
  with the places of their events.
- `PackagesKeepOrder`: in each scene the numbers of a revised plan grow with the ids, and
  a package is accepted only when it has the number the plan has now (`OneShot`).
- `ChangesAreSurgical`: of the nodes of two revised plans of one reading only those of
  shots can differ, since episode and scene nodes hold no number of a shot.

The library's induction and recursion theorems take an operator, which the provers in
use cannot instantiate. `Recursion_proofs` states them for sets of numbers and for
functions: a set with 0 and the successor of each of its numbers has all numbers
(`Induction`, from the least number it would lack), and a step that is a function of the
state can be repeated for ever (`RecursionExists`, `RecursionAtExists`). That is enough
for what the code computes by loops over queues, workers and places.

Only model-checked: liveness (`ImplementsFairLifecycle`, `GpusComeBack`, `JournalGrows`,
`TransferEnds`), since fairness is out of the prover's reach; the safety of the first is
`DriversImplementLifecycle`, that of the journal `JournalImplemented`. Every safety
invariant and every action property that a passing run checks is the property of a theorem.

## Plan

Done: the core (`Scheduler`, `StageCoordinator`, `RemoteDispatch`, `GpuAllocator`,
`EpisodePipeline`, `ProductionState`) with its abstract specifications; the drivers of the
scheduler in one module (`SchedulerDrivers`); gangs (`GangExecution`, `GangCommit`); the
artifact store (`ArtifactStore`, `ContentStore`); evidence, placement and the control plane
(`GpuCapabilities`, `WorkerControl`); the story's plans (`StoryPlanning`); theorems about
all of them, the searches and the rounds of the gang allocator included.

What could follow, the most useful first:

1. The allocator's choice among groups of workers, with the network requirement, as an
   operator in the manner of `GpuCapabilities`.
2. The wrappers that turn an allocation into launch specifications
   (`verified_distributed_runtime.py`), if they come to keep state.

## Not modelled, and why

- Engines, runtimes, adapters, discovery and the launch wrappers start external programs
  and format what they report; the verified-adapter router is a choice among constants.
- `stage_runner.py` and `production_executor.py` are one submit and one dispatch, one
  adapter call and one commit: these are in `Scheduler`, `RemoteDispatch` and
  `ArtifactStore`, and nothing else in them keeps state.
- `shutdown.py`, `workers.py`, `power.py`: a variable of three values, a dictionary and
  two sums. No other part of the source uses them (the registry in use is
  `worker_registry.py`), so there is nothing they interact with. `cost_policy.py` is a
  predicate of its arguments.
- `qc.py`, and the storyboard's checks of a plan, are predicates that change nothing.
- Release, approval, publishing and archive are checks on files before publication; the
  command line and ingestion parse input.
- Of the artifact store, `put_bytes`, `retain` and the replica manifest have no callers.
- TLS, request parsing, JSON and SQL are abstracted to what they carry. Checks of wording
  in stories, and prompts, decide nothing that the properties tell apart.
- Each worker offers the allocator one GPU, so a plan is a set of offers; which set of the
  right size (memory, collective and network evidence) is left open.
- Installers and verification scripts download files or test hardware once.
