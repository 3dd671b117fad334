# TLA+ verification of CSKCache (Segmentia)

CSKCache lets a vLLM/LMCache deployment reuse the KV cache of a *skill* (a text
an agent loads with a tool call) at a new position of a new prompt. The program is
`src/CSKCache/cskcache`. This directory models its runtime in TLA+, checks the
models with TLC and proves part of what they show with TLAPS.

Paths below are relative to `src/CSKCache/cskcache`.

## 1. The system

One vLLM scheduler process talks to one worker process per rank. Every rank has a
full set of the components of the first three rows.

| component | state | operations |
|---|---|---|
| Runtime metadata, `metadata/manager.py` | `_runtime_by_ticket` (a `RuntimeReuseState` per ticket: host load state, binding state, request, plan, layer progress, deadline), `_ticket_by_request` | `create_ticket`, `start_host_load`, `mark_host_ready`, `mark_host_failed`, `mark_observation_verified`, `bind_request`, `set_reuse_plan`, `activate`, `mark_layer_loaded`, `mark_layer_corrected`, `fallback`, `expire`, `release` |
| Host loads, `storage/manager.py` | `_loads_by_ticket`, the executor and its futures, the retained group (`_resident_*`), `_closed` | `submit_host_load`, `_load_into_pool` and `_complete_host_load` on the executor, `get_ready_buffers`, `cancel_host_load`, `release_host_load`, `close` |
| Control plane, `runtime/request_manager.py` | `_closed`, one lock held through every method | `select_skill`, `poll`, `inspect_tool_observation`, `authenticate_and_bind`, `prepare_reuse`, `query_reuse_readiness`, `activate_reuse`, `get_active_layer_buffer(s)`, `mark_*`, `cancel`, `release`, `close` |
| Scheduler coordination, `runtime/coordinator.py`, `integrations/vllm/scheduler.py` | a `SchedulerReuseState` per request (phase, lease owner, readiness) | `register`, `limit_prefill`, `poll`, `activate`, `allocation_failed`, `handoff_to_worker`, `consume_invalid_blocks`, `finish` |
| Connector and control transport, `integrations/vllm/connector.py`, `integrations/lmcache/{runtime,rank_control}.py`, `runtime/transport.py` | plans in transport, pending worker requests, invalid block ids | control RPC to every rank and combination of the replies, `build_connector_meta`, `start_load_kv`, `shutdown` |
| Layer execution, `execution/*`, `integrations/lmcache/worker.py` | the layer stream (next layer to submit, to wait for), the calibration blender | `execute` in two orders (h2d first, compute first), `submit_layer`, `wait_layer`, `commit_*`, `finish`, `abort` |
| Persistent catalog, `metadata/manager.py`, `metadata/builders/*`, and the pipeline that fills it, `../example/offline_skill_kv/{run.sh,manage_raw_catalog.py,prefill_skill_to_raw.py}` | containers and objects in a JSON file, a generation sidecar, a pending record per skill, the server's index of the raw file | `initialize`, `publish_objects`, `publish_cache_snapshot`, `invalidate_object`, chunk reconfiguration; prefill, record, recovery and quarantine of an interrupted run |
| Reuse plans and authentication, `runtime/base.py`, `runtime/authentication.py` | none | which tokens of a prompt are the skill, which are reused and which are corrected |
| Host pool and transfers, `host_memory/*`, `storage/transfers/*` | pinned buffers | acquisition of a group, release |
| Chunks and layouts, `chunking/*`, `layouts/*` | none | partition of tokens into chunks |
| System profile, `runtime/system_profile.py` | running averages | observation, persistence |
| Backends, formats, `storage/{backends,formats}` | none | file reads |

A reuse goes through it like this. A skill selection makes a *ticket* and submits the
read of the object's layers into pinned buffers (`select_skill`); the read runs on an
executor thread and its callback publishes readiness. When the tool result arrives it
is verified (`inspect`), when the prompt arrives it is authenticated and the ticket
bound to the request (`authenticate`), then a plan is made (`prepare`). The scheduler
polls readiness, activates, and hands the ticket to the worker, which copies the
layers to the device, corrects them, and releases the ticket. At any moment the ticket
may be cancelled, released, fail, or pass its deadline.

### What is hard, and what makes it correct

* **Host loads.** Four parties act on a ticket's buffers: control calls under the
  manager's lock, the executor's callback under the storage lock, the worker's device
  copies under none, and `close()`, which takes only the storage lock. Metadata has
  a lock of its own, and an expiry reaches the tickets under that one alone. Correct: every group
  of buffers acquired has exactly one owner until it is returned, once; a ticket that
  ended gives its buffers back wherever its read was; what a ticket says about
  readiness is true; nothing is freed under a copy; `close()` ends and leaves nothing.
* **Runtime metadata.** Callers in several threads and processes see each other's
  effects late. Correct: ended tickets do not change, the index by request agrees with the
  tickets, an active ticket is complete, layers are corrected after they were loaded.
* **Scheduler, connector.** Replies can be lost, ranks can disagree. Correct: no lease
  without an owner who gives it up, ready only if every rank is.
* **Layer execution.** Copy and computation overlap. Correct: a layer is used after it
  landed, committed once, and an exception anywhere leaves the worker usable.
* **Catalog.** Every process of the offline pipeline may be killed between two files it
  writes. Correct: the catalog changes by whole batches, what it lists is stored where it
  says, and what was saved is published, waiting, or put aside, never forgotten.
* **Pool, plans, chunks.** A group acquired in part is undone whatever raises; planner,
  layouts and layer stream count tokens in different ways and must agree on every prompt.

`PROJECT.json` lists each of these hazards at its line with the properties about it.

## 2. The modules

```
abstract                implementation                                 proofs
TicketLifecycle  <----  TicketTable    MetadataManager, runtime half   TicketTableProofs
      ^                    ^ extended by
      |                 HostLoads      StorageManager
      |                    ^ extended by
      |                 ReuseManager   RequestManager, executor,       ReuseManagerProofs, BufferProofs
      |                                worker, shutdown (one rank)
      +---------------  RankControl    every rank, seen through control calls
                           ^ extended by
PrefillReuse     <----  SchedulerCoordinator   scheduler, plan         SchedulerCoordinatorProofs,
                                       transport, hand-over, engine    SchedulerRefinement
LayerInstall     <----  LayerExecution executor, layer stream,         LayerExecutionProofs
                                       auxiliary model
                        KVLayouts, ReusePlanning   operators
                           ^ extended by
                        HostTransfers  pool, transfers, staging        HostTransferProofs
SkillCatalog     <----  OfflineBuild   offline pipeline, publication   OfflineBuildProofs
```

An arrow is a refinement: the abstract specification is a `PROPERTY` of a run of the
implementation and, for each of the five, a theorem. `TicketLifecycle` is implemented
twice: by the tickets of one rank in full detail, and by the abstraction of a rank that the scheduler is
checked against, so the two halves meet in the same promise. `MC*` modules give TLC its
instances. Definitions marked `(variant)` are plausible mistakes; substituted for the
definition that follows they make a property fail. No specification uses them.

### TicketLifecycle
A ticket is absent, issued, engaged, ended, retired; its host copy is empty, busy, full
or broken; a request is claimed by one unretired ticket. No dictionaries, no
plans, no layers.

### TicketTable
`runtime[t]` is `_runtime_by_ticket[t]` (binding `"absent"` when there is no entry) and
`ticketByRequest[r]` is `_ticket_by_request`. One operator per method, named after
it. A method holds the manager's lock from its first read to its last write, so it is
one step; `XOK` is the condition under which method `X` returns, and where it does not
hold the method raises and changes nothing. Object identity, fingerprints, reasons,
timestamps and durations are left out, and so is `activate(require_complete_host_load=False)`, which
nobody calls: `ActivateOK` is the method as `RequestManager` calls it, with `True`. A deadline is a wall-clock
value (`time.time_ns`), so `Expire(overdue)` may end any set of live tickets.

### HostLoads
`load[t]` is the entry of `_loads_by_ticket`, `io[t]` the future of its read, `pool[g]`
what became of a buffer group, `resident` the retained group, `closer` the thread in
`close()`. A ticket reads at most once, so a group bears the name of the ticket that read
it. A method is one step while it holds the storage lock, with two exceptions that others
can observe through the metadata manager: `submit_host_load` updates the ticket twice
(`SubmitHit`/`SubmitHitReady`, `SubmitMiss`/`Enqueue`), and the cancellations made by `close()`
read the ticket's state in one call and end it in another (`CloseDetaches`, `CloseEnds`).
Cancellations under the manager's lock are one step: the only other party that could end the ticket in
between, the expiry, needs that lock. Buffers are handed back after the storage lock is
left; they are reachable from that thread alone, so their return is part of the step.
The order of the executor's queue is abstracted (any queued read may start next): the
model has all orders the code has, and more.

### ReuseManager
`op` is the method that holds `RequestManager._lock`: which, for which ticket, how far.
`Begin` is entry and deadline cleanup, `Sweep` the cancellation of one expired ticket,
`Decide` what the method concludes from the state it reads, and a step such as
`PrepareCommits` the table call it makes then: between these steps executor and `close()` may act, so each
call checks again and may be refused, as in the code. Text, hashes and arithmetic the
methods decide by are free choices (`InspectVerdicts`: the tool result is right or not).
`get_active_layer_buffer`, `mark_*`, `cancel`, `release` and `close` have no deadline
cleanup and are one step each.

`work[t]` is the use of an activated ticket: who holds the lease, the group that a
copy in flight reads from, the layers that have landed. Every exception in the worker
(`WorkerFails`) waits for the device, then cancels the ticket (`WorkerCancels`).

Assumed of the callers, because the code outside the manager has it so:
* the scheduler is one thread; it polls readiness until it activates and not after
  (`CallerMayQuery`), and it releases or cancels a ticket only while it has the lease
  (`CallerMayEnd`, from `_release_scheduler_lease`; `WorkersGiveBack` and `HandoffNeverRaises` of
  SchedulerCoordinator are about the caller itself). The frontend's cancel is assumed not
  to arrive while a worker streams the ticket. Mutant `CallerMayAlwaysEnd` shows that
  the manager relies on this.
* `close()` is called on the engine's main thread, so no worker is executing then.
* several workers may hold leases at once, more than the single engine thread can.

### RankControl and SchedulerCoordinator
`ticket[k][r]` is what control calls can tell apart of rank `k`'s ticket for request `r`:
host copy, binding, planned or not. `Handle` is `_execute_runtime_control` at one rank for each
command. A synchronous call (`Outcomes`) reaches some ranks, will reach others later, and
answers only if all replies came; a command that nobody waits for any more lies in `late` and is
delivered at any time, in any order, or lost. `faults` counts losses and timeouts.

`state[r]` is the entry of `SchedulerReuseCoordinator._states`, `prepared` and `transported` the two
dictionaries of `PlanTransportCoordinator`, `pending` the connector's `_pending_worker_requests`. The
vLLM engine is external: `request[r]` is its view of a request, which stages it offers to
which hook, and `job[r]` the execution at every rank. A handler with all its calls is one step: the
scheduler is one thread and waits, and what a rank does meanwhile commutes with what the call
does at the other ranks. The engine is synchronous; for one that is not, `register` cancels
(`RegisterUnsupported`). The plan's numbers are constants: every rank computes it
from the same catalog and prompt. A request without a verified ticket is no concern of the
coordinator and is not in `Requests`. The branches of `register` and of the transport that
compare a request id or a plan with itself cannot be taken and are left out.

`consume_invalid_blocks` matches failures to requests by block ids alone, so the engine's tables are
modelled: `blocks[r]` is the copy that the table of `r` has at each place of the prompt, and a block is the pair
of both. A request that leaves the queue may find a prefix computed: whole blocks that another request has
filled, or that nobody uses any more (`Cached`), and after them blocks that LMCache is to fill in this step (`fetched`,
any of which may fail). Every other place gets a free block (`Fresh`). A rank that fails reports the blocks
`update_state_after_alloc` kept (`FailedBlocks`); the reports of all ranks and LMCache's errors arrive as one
set, and `FailedRequests` intersects it with the reserved range of each activated request, as the
code does. Blocks that no request accounts for are handed on to the engine, which makes their holders compute
from before the first of them; in the model they start over, from where the next step may take them to any point
as well (they all began in this step, so none of them counts reused tokens). `began` is history: who left
the queue in this step. What the engine does with a request that shares a block which the
coordinator did account for is the engine's, outside the repository; that this concerns
nobody but requests that began in this step is `OthersUndisturbed`.

`PrefillReuse` is what a user of the engine sees of it: plain, open until the
boundary, held there, then granted, skipped and settled, or refused; what is
revoked is computed again from the boundary at the latest. A reuse that has settled may still be revoked, when the
request was preempted, begins again and finds a block on which another one's rank fails.

### LayerExecution
`pc` is the next call of `CSKCacheReuseExecutor.execute` and its helpers, for
the three methods (install directly, correct a ratio of the prefix, correct by deviation) in the two
orders (copy the next layer before or after computing this one). Any call may raise: `Raise`,
`Abort` and `CloseModel` are the handlers it passes, down to `_execute_csk_requests`. A copy lands
when it likes (`Lands`), unless the executor waits for it. The auxiliary model is a Python
generator, and it matters whether it was ever started: closing an unstarted one runs none of
its `finally`. Tensors are what was done to them: offline, corrected, corrected twice, garbage.
The arithmetic of the correction and of the top-k selection is data.

### KVLayouts, ReusePlanning, HostTransfers
`KVLayouts` has chunks, the four layouts, regions and slices; `ReusePlanning` the marker search, the
authentication of a prefix, calibration, the plan, and what the constructors refuse. Digests are equal
exactly for equal tokens. The calibration ratio times a length is any number
from 1 to the length. `HostTransfers` runs several `_load_into_pool` over a shared pool and,
when a copy is ready, a request's authentication and plan (which read the catalog only, so their moment is
immaterial) and the layer stream's copies. Each call of a load may raise at every point. `lost` is history: the memory
objects whose last reference an exception dropped with no handler that releases them. A raw read that raises loses
its group (`ReadExtents`); the local disk reader (`ReadLayerObjects`) loses every layer it has read
when starting the reads, pairing them with the keys or `batched_unpin` raises, and a single object when its `unpin`
does. Assumed not to raise is `ref_count_down`, which the handlers call; pin counts are not modelled.
`load_layer` of the transfers has no caller and is left out.

### OfflineBuild
`run.pc` is where `run.sh` is; its processes may be killed at any step: the server alone (`ServerDies`), or the script
with all it started (`RunDies`). A SIGKILL of the script alone, which runs no `trap` and leaves the server
running on the raw file while the next run starts another, is not modelled. A power failure
is not modelled (the record of a prefill is renamed without a directory `fsync`; with one, a record
could be lost). Files are replaced atomically, as the code does it. A failing write ends the step as a
refusal or a kill does. `index` is the server's map from keys to places and `checkpoint` what is on disk of
it: for the raw backend the index that is written when the server is stopped in time, for
files those that were written. `loadable`, `saved` and `quarantined` are history. External, from how the
scripts and settings use LMCache: a key that has a place keeps it; a full store
answers the request and saves nothing. One operator uses a pool at a time, as the
lock-free scripts presuppose; `Invalidate` is between runs. `SkillCatalog` is the promise to readers.

## 3. Runs

| run | instance | shows |
|---|---|---|
| `table` | 2 tickets, 2 requests, 1 object, 2 plans, 3 layers | the table called by anybody in any order: types, index, completeness, frozen ends, refinement of `TicketLifecycle` |
| `expiry` | 2 tickets, 1 request, 1 layer, 1 executor thread, deadlines | readiness is true, refinement of `TicketTable`; loads settle, ended tickets give back |
| `close` | the same with 2 objects, retained group, shutdown, no deadlines | one holder per group, sharing and eviction, copies read held buffers; `close()` ends and everything is returned |
| `coordinator_faults` | 1 request, 2 ranks, 3 faults, deadlines, prompt of 5 tokens, boundary inside a block | no hole in the cache, leases and grants agree with all ranks, hand-over never raises, refinement of `PrefillReuse` and, per rank, `TicketLifecycle`; a held request is decided, and when a request is gone its tickets end unless a call timed out or a command was lost |
| `coordinator_batch` | 2 requests that are alike (symmetry), 1 rank, no faults, prompt of 3 tokens, blocks of 1 token, 2 copies of each | no hole, and nobody's reuse is revoked for what another failed on, with tables that share blocks and with LMCache's failures among the ranks' |
| `layer_execution` | 4 layers, check layers 1 and 4 (one past the last), 3 executions | the stream's protocol is kept in both orders, a marked layer is installed, a half installed range is reported, nothing is in flight at the end, refinement of `LayerInstall` |
| `transfers` | 2 loads, 2 layers, 3 objects, every prompt of 1, 2 and 5 tokens over 2 tokens, host chunks 1 and 3, a pool that cannot hold both | regions accounted for through every exception; the longest prefix is found, nothing built from it is refused, every token is staged from its source |
| `offline_build` | 2 skills with 2 contents each, 2 chunk sizes, 2 places, 2 saves, 2 kills | what is published is stored, nothing saved is forgotten, refinement of `SkillCatalog` |
| `expiry_during_copy`, `expiry_during_close`, `layer_model_left`, `transfers_lost` | | **violations**, section 5 |

**Bounds.** *Manager*: two tickets are the least for which sharing, eviction, a cleanup made by another
ticket's call, and a full executor (`MaxInflight = 1`) happen; the code relates at
most two tickets at a time (a sharer and the retained one). One request is enough for the manager,
whose decisions compare a request only with the ticket's own; the table run has two, for
the index. One plan and one layer do for the manager: the table run has two plans and three layers.
*Coordinator*: two ranks are the least that can disagree; one handler makes at most two calls, so three faults
let a call of an earlier handler interfere with both. Requests meet only in a batch and in the block tables, which is the second
run: with two copies of each block (`Copies`) two requests share or do not at each place, in the range and before it; the
two requests are interchangeable and no liveness is checked there. The proofs cover any number of requests, ranks,
faults and copies together. *Execution*: layer
`l` is worked on while `l + 1` is copied, so four layers have a first, a last and two between; three executions let a
second one succeed or fail after a failed first. *Transfers*: five tokens hold an object of three or
four with text before or after it, or two occurrences of a marker, one overlapping the end; chunk 3 makes a short last
chunk, chunk 1 a whole number of them. *Offline*: a kill, the recovery, and a kill of the recovery. `MaxFaults`,
`MaxExecutions`, `MaxSaves` and `MaxKills` are the only counters and their bounds
are guards; the theorems hold for every value of them.

**Fairness.** `ReuseManager!Fairness`: a method that began continues, an executor thread reads and
runs its callback, a worker in `_execute_csk_requests` continues, and `close()` continues. All are
threads that wait only for locks and for the executor. Nothing obliges anybody to make a call,
a deadline to pass or the scheduler to hand over. Weak fairness is enough, since a lock,
once free, is taken again only by a step of the same fair sets or by a new call; a new
call in front of a waiting thread for ever would need infinitely many calls, and the
single-step calls leave the lock free in every state between.
`SchedulerCoordinator!Fairness`: a read ends, a queued command is executed (or lost), a started step is executed
and its output processed; and the engine's loop comes back to a request it holds, strongly fair, because the
steps of other requests disable the hooks in between. The fair poll is one that gets its answers and finds
no rank unprofitable (`PollOnce(r, TRUE, {})`): the hook is called again and again, and faults are bounded. No prefill, no
fault and no end of a request is fair.
`FinishedLetsGo` says nothing once `faults > 0`: `finish` forgets the request whatever the release call said.
A lost release then leaves the ticket to its deadline, and to nobody where
none is configured; the repository knows it (`agent_md/cskcache_h20_migration_development.md:173`), so it is no finding.

Deadlock is checked for `table`, `expiry`, `close` and the coordinator (`Drained` is its one intended end). Executions,
loads and pipeline runs really stop when their bounds are used up, so the other configurations say `CHECK_DEADLOCK FALSE`.

## 4. Proofs

Proved with TLAPS for all values of the constants, from the assumptions in the modules
(`TableAssumption`, `HostAssumption`, `ManagerAssumption`, `ControlAssumption`, `PlanAssumption`,
`ExecutionAssumption`, `BuildAssumption`, `TransferAssumption`: null values are not members, sizes are
natural numbers, the reused range lies inside the prompt; `ObjectAssumption`: what
`CacheObjectMetadata.__post_init__` validates, neither the tokens nor the marker are empty and the digest chunk is
positive; `PromptAssumption`: a prompt is a sequence, also an empty one).

* `TicketTableProofs`. The inductive invariant is `TableInv`: types, the index, complete active
  tickets and `BindingShape`. The last is needed because `IndexMatchesBindings` alone is not inductive:
  `bind_request` writes an index entry without looking at the ticket's old request, so one must
  know that an observed ticket has none. Methods that replace one ticket's state without
  touching request or index are dealt with by one lemma (`StoringStepInv`). Theorems:
  `TableTyped`, `IndexAgrees`, `ActiveComplete`, `EndedTicketsFrozen`, and `TableImplementsLifecycle`: initial state
  to initial state, each method to the step of the lifecycle or to a stutter, by `TableInv`.
* `ReuseManagerProofs`. `ManagerImplementsTable`: each step of the composed system is one method
  of the table or leaves it alone; therefore the table's theorems hold of the whole under all
  interleavings (`ManagerIndexAgrees`, `ManagerActiveComplete`, `ManagerEndedFrozen`). `ReuseTyped` is type
  correctness of the whole. The invariant `ReuseInv` adds to the types that a method under way
  has a name and, where it needs one, its request, that `close()` in the middle of a cancellation
  has its ticket, and that a copy in flight is of one of the `Layers` layers.
* `BufferProofs`. `OneHolder` (each pinned group has one holder until it is back, and goes back once) and
  `CloseCollectsAll` (when `close()` returns nothing is held), both under `ExpiresOrCloses`: the manager
  has deadlines or is closed, not both. With both the first is false (`expiry_during_close` below). One holder is
  not inductive; the invariant `BufferInv` adds
  - `GroupsOwned`: which hands exclude which, given how far the ticket's read is;
  - `ReadsOnce`: only an issued ticket has a read or a load, and a load that shares has no read. As
    `select_skill` submits for a ticket it has just issued, no group is acquired again while an
    owner still has it (`SubmitsOnce`: what the method relies on at each of its steps);
  - `ClosesInOrder`: while `close()` holds the storage lock between its two metadata calls the ticket stays
    live (`LiveStays`, the one place where the assumption is needed), so the second call does not raise; and after it has
    collected, nothing submits, reads or completes (`CollectedStays`).

  Two more theorems stand on it, under the same assumption: `HitsShare` (a resident hit shares a group that is still
  retained) and `HostStateTold` (what a live ticket tells of its host copy is what the storage manager has).
  `HostInv` adds to `BufferInv`
  - `SharesResident`: beside a retained group the only load is one that shares it, so the eviction a miss makes meets no
    sharer;
  - `CopiesTold`: a live ticket whose copy is loading or ready has its load, and it is ready only after the read.
    Ticket and load are written by two calls under two locks, in either order, so the invariant has two exceptions:
  - `SubmitsLoading`: `select_skill` between `create_ticket` and the executor's queue has a live, loading
    ticket whose load nobody else takes;
  - `CloserCancels`: the ticket `close()` is just cancelling.

  `CopiesHeld` (the layer copies of the worker read from held buffers) is proved for managers without
  deadlines; `expiry_during_copy` shows that with deadlines it is false. The storage manager does not look whether
  a copy is under way when it gives a group back. That it need not is what `CopyInv` says: nobody answers for a ticket
  before it is active (`LeasedLate`); a method that decided to give its ticket up did so while nobody answered for it,
  and no request gets to a worker in between (`GivesUpUnleased`); `close()` begins when no worker executes
  (`ClosesUnleased`); a worker that copies has a load with exactly the group it reads (`CopyLeased`).

  The run `close` retains groups; that the same holds of a manager that does not is part of all these theorems.
* `SchedulerCoordinatorProofs`. `CoordinatorInv` has two parts. `RequestsInv` speaks of one request at a time: `PhaseFits` (phase, lease and the
  engine's stage agree), `StageFits`, `HandoverFits` (what is pending or in a job is the worker's, and a job that
  ended has ended the ticket), `LeaseFits` (a released lease is one at every rank). None of the properties is inductive without
  the others: that no hole is left after the output needs the lease to be the worker's, which needs the phase,
  which needs the stage the engine offers. A step of one request leaves the others `Alone`, and what any late command
  does to a ticket is `Tame`: it never reopens it. That is why no assumption on the
  channel is needed.

  `BlocksInv` speaks of the requests together. While reuse of a request is undecided, nobody shares a block of its
  table from the boundary's on (`OwnFits`): its own tokens end at the boundary, so no block there is full, and none is found in
  the cache. Once it is handed over, only requests that began in the same step can share one (`HandedFits`): its tokens count as
  computed from then on. Blocks that LMCache is to fill belong to requests that began in this step (`FetchedFits`,
  `FetchedHeld`). Therefore a failure is found again by the id of the boundary's block (`FailureIsReported`), and who is matched by a
  block of another's failure, or has a block that LMCache could not fill, began in this step
  (`FailureIsOwn`, `RewoundBegan`). `NoHoleLeft` rests on the first, `BatchUndisturbed` on the others.

  Theorems: `NoHoleLeft`, `ReleasedEverywhere`, `WorkersLetGo`, `HandoffSafe`, `ReadyStays`,
  `GrantsEverywhere`, `BatchUndisturbed`.
* `SchedulerRefinement`. `RanksKeepTheLifecycle` (the name that stands for no request, "nobody", must not be a
  request) and `CoordinatorImplementsPrefill`.
* `LayerExecutionProofs`. `ExecutionInv` says for each next call how far the stream, the current layer's staging
  buffer, the ticket and the paged cache have got. Theorems: `ExecutionTyped`, `ProtocolHolds`, `MarkedLayersInstalled`, `NoHalfInstalledUse`,
  `NothingCopiedAtEnd`, `ExecutionInstalls` (refinement), for any number of layers and executions.
* `OfflineBuildProofs`. `BuildInv`: types; `Stored` (both indexes are truthful, the server keeps what was checkpointed where
  it is, whatever was published is in the checkpoint at its extents); `Accounted` (records are numbered as written, the
  catalog has one object for each owner, a pending record is not older than the published one, a record is unlinked only
  when it or a newer one is published, none is written over another, and each is pending, set aside, published or superseded).
  Theorems: `PublishedStored`, `RecordsAccountedFor`, `BuildImplementsCatalog`.
* `HostTransferProofs`. Four properties, for every number of loads and layers, every prompt, object, host chunk size, layout
  and capacity.
  - `RegionsHeldOnce`, from `HeldInv`: which regions a load holds (`Holds`) and has lost (`Loses`) at each place it can be at,
    and that a region is counted exactly while it is one or the other (`CountedOnce`). The pool's arithmetic (`Fits`) guards an acquisition and is never needed.
  - `BoundToLongest`, from `RequestInv` (a request is bound to what was located in its prompt, its plan is
    one made from that) and `LocatedIsLongest`: the marker search and the digest comparison find the newest marker and the
    longest prefix that ends with a chunk or the object.
  - `ConstructorsAccept`, from the same: the planner's two ranges tile the prefix, the chunks tile the object
    (`CeilDivBounds`, `ChunksAre`), the regions of a plan tile it once more, the slices of a layer, sorted by
    their start, leave no gap (`RegionsAre`, `SlicesAre`), and each layout accepts its own memory objects (`LayoutsAccepted`).
    So none of the `ValueError`s of these constructors can be reached.
  - `StagesTheRightTokens`, from `ContentInv` (a loaded region has the tokens and positions its place stands for, also after
    the conversion to chunks), `NeededCover` (the slices the stream needs cover the plan's positions) and `StagedIs`.

  The loops of the code (the first chunk that differs, the last marker, the sorted slices) compute by induction
  over data, which the provers cannot do. The operators therefore say what the loop finds, not how: a least
  or greatest element, or the number of regions that begin before. That these exist is proved without an
  induction theorem: inclusion of finite sets is well founded, so among the intervals below the members of a set
  of naturals there is a smallest (`LeastNat`, `GreatestUpTo`).

Only model-checked:
* liveness (`LoadSettles`, `EndedGiveBack`, `CloseReturns`, `HeldIsDecided`, `FinishedLetsGo`): fairness and
  `ENABLED` are out of the prover's reach.

Every invariant, action property and refinement of the passing runs is a theorem. Not claimed at all
is what `OneHolder`, `CloseCollectsAll`, `HitsShare`, `HostStateTold` say of managers that have deadlines and are closed, and
what `CopiesHeld` says of managers with deadlines: section 5 has the counterexamples.

## 5. Where code and documentation disagree

* `expiry_during_copy`. `cancel_host_load` is documented to release buffers "when safe". With
  a deadline configured (`ticket_ttl_seconds`; LMCache's `csk_prefetch_handle_ttl_seconds` is unset by
  default, `RequestManager`'s own default is 60 s), `expire` also ends active tickets, and the next control
  call for any ticket returns their buffers while the worker's copy reads them.
* `expiry_during_close`. `close()` is documented to "release every pool allocation exactly
  once". `poll`, the one method that does not look at `_closed`, can expire a ticket between
  the two metadata calls of a cancellation made by `close()`; the second raises, `close()`
  ignores it, and the buffers are dropped. In the repository `poll` is called by tests only.

  With `Expiring = FALSE` (the default of the LMCache integration) both properties hold: run `close`.
* `layer_model_left`. The blender is marked active before the calibration model is built, and its `finally` runs
  only in a generator that was started. A model that cannot be built, or a first layer that cannot be submitted,
  leaves it active; every later execution that needs a model is refused with "a CSK calibration model is already active".
* `transfers_lost`. A raw read that raises (rather than reporting an incomplete result) loses the whole layer group it had acquired;
  the handler that `load_layer` has in the same file is missing in `load`. With `Backends = {"local_disk"}` the same property fails
  at `ReadLayerObjects`: `batched_unpin` and the start of the reads are outside the handler of its loop.

## 6. Not modelled, and why

* *System profile* (`runtime/system_profile.py`): running averages. The one decision they steer, to end a ticket as
  unprofitable, is open in the models (`Unprofitable` takes any ranks); a failing record is a step of `HostTransfers`.
* *Backends and formats* (`storage/{backends,formats}`): reads that succeed or fail, both of which the models have.
* *Connector*: construction, shutdown order, slot mappings, and the frontend calls before registration (their effect
  at a rank is in `ReuseManager`).
* *Catalog*: field checks of records, hashes; settings that differ from an existing pool's are refused at once.
* Text formats, metrics, logging, `tools`, GPU kernels (`fused_gather`), and LMCache and vLLM themselves.
* The rest of the repository, by far its larger part, is not this program: evaluation and plotting scripts
  (`scripts`, `CSKCache/example/paper_evaluation`), the agent skills (`skills`) and vendored code. They run an experiment from top to
  bottom and keep no state that steps of several actors could disturb; a model of them would only
  repeat them. The map therefore covers a small share of the repository and most of the stateful code of `cskcache`.

What would come next: two requests on two ranks in one TLC instance, which the proofs cover and TLC does not reach; a power failure
in `OfflineBuild`.
