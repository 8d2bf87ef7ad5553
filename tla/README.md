# TLA+ verification of vllm-ascend

The repository is the Ascend NPU plugin of vLLM. Most of it is numeric code.
This project looks at the parts where threads, processes, ranks and device cores
work together without a common lock, and at the index arithmetic that two
parties compute separately and have to agree on:

- the transfer of the KV cache from prefill (P) to decode (D) instances,
  `MooncakeConnector`
  (`src/vllm_ascend/distributed/kv_transfer/kv_p2p/mooncake_connector.py`, below
  `mc.py`);
- expert load balancing, `src/vllm_ascend/eplb`;
- two fused communication operators of `src/csrc/mc2`:
  `matmul_allreduce_add_rmsnorm` and `dispatch_gmm_combine_decode`.

## 1. Inventory

### What is modelled

| part | state | hard behaviours | what must hold |
|---|---|---|---|
| `KVCacheTaskTracker` (`mc.py` 163-239) | finished, delayed and processed requests | done, delay and expiry in any order | see P and D |
| P: scheduler, worker, `KVCacheSendingThread` | metadata on its way, DONE counts | late metadata, several readers of a port, lost or late DONEs, timeout | blocks are held while D reads, freed once, and freed in the end even if D is gone |
| D: worker, `KVCacheRecvingThread` | queues and handlers per peer, task counts, failure marks, invalid ids | a request's tasks on several threads while others are being queued, failures half-way, fairness between peers | a request is announced when nothing writes into its blocks any more; every load is announced; a failed load never looks like a good one; every pull ends with a DONE |
| rank, port and block mapping of the worker | none | P and D compute it separately; unequal TP, PP and CP sizes, unequal block sizes, prefix hits | every head and every missing block is copied to its place; P waits for exactly the ranks that read |
| EPLB updator, loader, planner process | phase counter, queues, plan, maps, weights, buffers | each rank plans for itself; transfers are matched by order only; blocking waits | a token reaches a slot that holds its expert; no rank waits in vain |
| `matmul_allreduce_add_rmsnorm` kernels | counters in shared windows, events between cores | counters polled for equality, windows reused by the next launch at once | right output on every rank in every launch; every launch ends |
| `dispatch_gmm_combine_decode`, dispatch and combine | window halves, status words, alternating flags | no acknowledgement, nothing is cleared | tokens, counts and results arrive where they belong; every launch ends |
| `dispatch_gmm_combine_decode`, grouped matmuls | L1, L0 and L0C buffers, events, ring of workspace tiles | four pipes and a vector core that overlap, a multiply issued late | each tile reaches the vector core whole; no core waits in vain |

### The other parts

| part | why it is not here |
|---|---|
| `mooncake_layerwise_connector.py` | a push scheme, one layer at a time, with a metaserver; a project of the size of the present P/D part |
| `mooncake_hybrid_connector.py` | the threads of `MooncakeConnector` again, for several cache types |
| metadata cache and socket pool of `mc.py` | abstracted to a read that fails |
| `kv_pool/ascend_store`, the CPU offload connectors, `recompute_cpu_offload` with its scheduler | store clients and host copies with threads of their own; the next in line |
| `simllm`, `device_allocator/camem.py`, `distributed/weight_transfer`, `model_loader` | small sequential or session state; candidates |
| other operators of `csrc` | mostly arithmetic inside one core; the protocols among them are the multi-expert path of `dispatch_gmm_combine_decode`, `dispatch_ffn_combine`, the other dispatch and combine operators of `mc2`, and the MLA preprocessing pipeline |
| schedulers, model runner, `ops`, `attention`, `quantization`, `compilation`, `patch`, configuration | sequential code around vLLM and the device |

The hazards of the modelled parts are listed, each with its line and its
properties, in `PROJECT.json`.

## 2. Plan

Next, the most important first: theorems about `Eplb` (`PlannedFromTruth`, then
`TokensReachTheirExpert`), the counters of `MatmulAllreduce` (`ExIsBarrier`,
`NoFlagOvershoots`), `FlagsBalanced` of `GroupedMatmulPipeline` and `CopiesExact`
of `ContiguousGroups`; then several KV cache groups in `KVCacheRecvingThread`, the
metadata cache (`SizedDict`, `mc.py` 143-160), the multi-expert path of the fused
operator
(`grouped_matmul_slice_m_per_token_dequant_swiglu_quant_multistage_workspace.h`),
the KV pool, the offload connectors.

## 3. Modules and code

### `KVCacheTaskTracker`

The tracker as operators on its three fields. Each method but
`add_req_to_process` holds `done_task_lock`, so a method is one atomic operator.
`delayed_free_requests` is an `OrderedDict`: a sequence of `[req, start]`,
where an assignment to a present key keeps its place (`With`).
`_retrieve_expired_requests` is the longest prefix that is due (`NumExpired`).

### `KVCacheRecvingThread`

One decode rank, extending the tracker. A request is split into tasks
`[req, idx]`, one per pull, in the order of the two loops of `start_load_kv`;
`RemotePorts` and `LocalBlocks` are the result of `_get_kv_split_metadata`. An
action is a section of code between two points where another thread can
interfere: a lock, a queue operation, a transfer.

| thread | actions | code |
|---|---|---|
| model runner | `start_load_kv`, `add_request` (one task put in the queue), `get_finished`, `get_and_clear_invalid_block_ids` | 3106-3173, 2296-2321, 573-578 |
| dispatcher | `mark_request_task_submitted`, `append_peer_request`, `submit_peer_handler` | 593-618, 653-658 |
| executor threads | `start_handler`, `pop_peer_request`, `end_batch`, `resubmit_handler` | 620-651 |
| executor threads, one task | `check_failed`, `transfer_kv_cache`, `reformat_kv_cache`, `transfer_fails`, `mark_request_task_done`, `finish_request`, `clear_request`, `send_done_signal_to_free_remote_port`, `send_done_recv_signal` | 676-726, 728-979, 660-674, 1300-1334 |

The executor is a queue of handlers that idle threads take from. A dictionary
with a default is a function whose 0 (or "absent") stands for a missing key.
`stage`, `pulled`, `failed`, `reformatted`, `done_sent`, `free_rounds`,
`reported` and `reported_invalid` record what happened, for the properties; no
action of the code reads them, except that a request is started once (the
scheduler's "Only trigger 1 KV transfer per request.", `mc.py:1736`).

A transfer is abstracted to its outcome: the read succeeds or anything in it
fails, the metadata exchange and the reformatting included. Kernel and logical
block ids are both modelled, because load errors are reported in one and read
in the other.

### `LoadContract` and `KVCacheRecvingThreadContract`

`LoadContract` is what the decode side promises the scheduler, in terms of
requests and blocks: a load begins, its blocks are written or lost, it ends when
each is one or the other, it is reported after that, and the output that reports
it comes with the ids of the lost blocks. `KVCacheRecvingThreadContract` maps the
receiving thread onto it and states that it is implemented
(`ImplementsContract`): a block is written when every pull that fills it has
ended well and lost when one has failed.

### `KVCacheSendingThread`

The scheduler half of P, one worker rank and its listener, extending the
tracker. The decode tasks that read from this rank are the environment: a read
begins when the request is finished on P, ends with a DONE, and the DONE may be
delayed or never come. The DONE to a rank that nobody pulls from (`SendNum` 0)
may come again, as D can send it in two rounds (`send_done_again`; the model sets
no limit, since from the second on it changes nothing).

| part | actions | code |
|---|---|---|
| scheduler | `update_state_after_alloc`, `build_connector_meta`, `request_finished`, `request_finished_early` | 1716-1813 |
| worker | `start_load_kv`, `send_next`, `get_finished` | 3106-3112, 3175-3184, 2296-2316 |
| listener | `done_recving` | 355-382 |
| environment | `preempt`, `begin_read`, `send_done`, `send_done_again`, `Tick` | vLLM, the D side, `time.time` |

`metas` holds the scheduler outputs that the worker has not seen (async
scheduling). `cp`, chosen at the start, tells the two protocols apart: with
context parallelism a port counts DONEs up to the number that D sends along
(`SendNum`), without it the first DONE is enough and the ranks nobody reads from
report at once.

### `RemoteRanks`, `KVPorts`, `KVSplit`, `ContiguousGroups`

Pure functions of the worker of `mc.py`, each against what it is for.
`RemoteRanks`: which prefill ranks a decode rank reads, with unequal TP and PP
sizes and a random choice among copies of a head (`_get_remote_ranks_for_req`),
and what P makes of the same table. `KVPorts`: the same under context
parallelism, with the number of DONEs a port is told to expect. `KVSplit`: which
blocks each decode rank pulls and where they go, when P and D deal the blocks of
a prompt to different numbers of ranks in blocks of different sizes and a prefix
is cached on D. `ContiguousGroups`: neighbouring blocks that are copied as one.
`Supported` collects the sizes for which they are meant: the asserts of the code,
and the prefix of whole blocks of section 4.

### `Eplb`

All ranks of an expert-parallel group, each with its step loop, its
`EplbUpdator` and loader and its planner process.

| part | actions | code |
|---|---|---|
| the step of a rank | `forward_before`, `Forward`, `compute_and_set_moe_load`, `forward_end` | `eplb_updator.py` 80-157 |
| the loader, inside these | `start_transfer`, `update_expert_map_and_weight` | `eplb_device_transfer_loader.py` 46-138 |
| planner process | `do_update`, `put_update_info` | `eplb_worker.py` 46-309, 405-415 |
| the wire | `Transfer` | `batch_isend_irecv` |

The model's forward pass and the gathering of the loads need all ranks, so they
are steps of all ranks together; everything else interleaves. `weight` says whose
weights a slot holds. A load is represented by the placement that the policy
proposes for it, which may be one that `check_expert_placement` has to refuse.
Transfers between two ranks are matched in the order in which they were posted.

### `MatmulAllreduce` and `AllreduceRows`

Both kernels of the operator on every rank. A vector core runs the straight-line
program `Kernel`, built from the same subroutines as `Process`; cube cores
multiply into the rank's window, split by split. A row holds the launch and what
it is (partial product, norm, sum), so that a row read too early, too late or
twice shows. `AllreduceRows` is the deal of rows to ranks and cores. Flags start
with what an earlier user of the window left.

### `MoeDispatchCombine` and `MoeSharing`

The path for one expert per rank. Each vector core runs `Kernel` (dispatch,
counts, wait, copy, matmuls, return, wait, sum). A token is `<<launch, rank,
token, expert>>`, so that a result of another launch, token or expert shows.
Windows have two halves; status words carry a flag that alternates.
`MoeSharing` is the arithmetic for ranks that hold the shared expert.

### `GroupedMatmulPipeline` and `TileDealing`

One cube core with its pipes and its vector core. The scalar unit's program is
fixed by the tiles of the core, and each pipe works off its instructions as soon
as their events are there. `soft` chooses the first matmul, whose ring is guarded
by two one-byte counters in memory, instead of the second with hardware flags.
The wait object of the first matmul has one target, which the tile that is
loaded ahead overwrites (`aicWaitFunc1`). `TileDealing` is the deal of tiles to
cores over all experts.

### Model-checking modules

The `MC` modules give the constants. `MCKVCacheRecvingRecycle` adds `Recycle`, a
new request under the id of one that is over, so that a peer can be kept busy for
ever. `MCArithmetic` takes every small size as an initial state and evaluates
the pure modules on it. Where a run covers several configurations, the
configuration is a variable that no action changes (`cp`, `op`, `variant`,
`record`).

## 4. Runs

| run | what it shows | states |
|---|---|---|
| `recv_cp` | safety of the decode side, its inductive invariant, no deadlock, `LoadContract` is implemented | 284,556 |
| `recv_endless` | `EveryLoadReported`, `DoneAlwaysSent`, with one thread and a peer whose queue never empties | 65,511 |
| `send` | the prefill side and its inductive invariant with both protocols: several readers, one, none | 60,045 |
| `arithmetic` | the pure modules on all small sizes | 12,350 |
| `eplb` | three ranks, four experts in six slots, two layers, cycle after cycle | 20,796 |
| `allreduce` | two ranks of two cores, a launch with `is_gather_add_out` and one without | 140,756 |
| `moe` | two ranks with a mask and three launches; three ranks, two of them for the shared expert | 47,301 |
| `gmm` | both matmuls, with and without resident A | 39,326 |
| `recv_reformat`, `recv_scale`, `moe_masked_shared`, `gmm_256` | disagreements, see below | |

Decode side:

- `LoadedBeforeReported`: a request is announced only when each of its tasks
  was read or has failed and no thread can still write into its blocks.
- `OneHandlerPerPeer`: a peer with waiting tasks has exactly one handler, in the
  executor's queue, in a thread, or about to be submitted.
- `FailureReported`, `InvalidBlocksFailed`: with the output that announces a
  request, the scheduler has the ids of all its blocks whose load failed, and no
  others.
- `MarksCleared`: a request that is over has no count, marker, failure mark
  or tracker entry left. (It does leave an entry in `proc_not_transfer_request`,
  see the other observations below.)
- `ImplementsContract`: the refinement of `LoadContract`.
- `EveryLoadReported`, `DoneAlwaysSent`: liveness, failed loads included.

Prefill side:

- `ReportedAtMostOnce`: vLLM counts one report per worker.
- `BlocksHeldWhileRead`: the rank keeps the blocks while a task reads them,
  unless the request has expired.
- `NoExpiredLeft`: stopping at the first entry that is not due misses none.
- `EveryRequestFreed`: liveness without any help from D or the network.

Arithmetic: `HeadsComplete`, `SendersAreRead`, `PortsServeReaders`,
`KernelsInPlace`, `CopiesExact`, `RowsShared`, `TilesDealt`, `SharedPlacesFilled`.

EPLB:

- `TokensReachTheirExpert`: while the model runs, the slot that any rank's
  `log2phy` map gives for an expert holds that expert's weights.
- `PlannedFromTruth`: the placement that a planner remembers from its last plan
  is the one all ranks have when it plans again.
- `EveryCycleEnds`: after the loads are gathered, every rank completes the cycle.

Device operators:

- `OutputsCorrect` (both operators), `TilesWhole`: the results.
- `InStep`: a core of the all-reduce that is past a wait for another rank was right
  to go on, and no core passes a barrier before the others.
- `NoFlagOvershoots`, `ExIsBarrier`: a counter polled for equality never passes
  the polled value unseen, and `CrossRankSyncEx` is a barrier though its counter
  is never reset.
- `WindowsFree`, `CoresInStep`, `CountsAgree`: why two window halves and one
  alternating flag are enough; the vector and the scalar path of
  `AlltoAllDispatch` agree.
- `FlagsBalanced`: a finished matmul leaves every event and counter at zero.
- `EveryLaunchEnds`, `EveryTileTaken`: nobody polls for ever.

### Disagreements

`recv_reformat`. The docstring at `mc.py:2945` says that the flag marks the final
pull of a group and decides when reformatting can run. The flag is given to the
last pull in the order of queueing. The pulls of a group go to different ports,
so to different handlers: the flagged one can be read and reformatted
(`mc.py:914`) while another has not begun. The announcement of the request still
waits for all the pulls, but the pull that comes last then writes into
blocks that are already permuted.

`recv_scale`. `_mark_failed_recv_request` (`mc.py:587`) records the ids of the
task, which are kernel block ids, and `get_and_clear_invalid_block_ids` hands
them out as "block ids that failed to load" (`mc.py:574`). When a block has
several kernel blocks these are ids of other blocks.

`moe_masked_shared`. With `x_active_mask` and two shared expert ranks, the
dispatcher announces counts worked out from `axisBS_` and places tokens by the
number of active tokens, and an active token gets a wrong result. The test of the
operator compares exactly these results, without shared expert ranks.

`gmm_256`. `CheckSyncFlag` compares a `uint8_t` counter with a `uint32_t`
target: a core that gets 256 tiles in a launch waits for ever. The host lets
sizes through for which this happens.

### Other observations

These are not runs. The first is in the model; the passing runs keep clear of the
others by a stated assumption.

- The task that ends a request pops the request's entry of
  `proc_not_transfer_request` (`mc.py:702`) and then calls
  `_send_done_signal_to_free_remote_port`, which makes the entry again
  (`mc.py:717-721`). If an earlier task of the request has been through it, the
  ports that nobody reads get a second round of DONEs; in any case the entry stays
  in the dictionary for good. On P the second DONE finds the request gone from
  `reqs_to_process` and is ignored with a warning (`send_done_again`).
- `KVSplit!Supported` asks for a cached prefix of whole blocks of P when P uses
  context parallelism. The code does not assert it. Where the blocks of P are
  larger (`mc.py:2367`), a comment takes (p - P0) * Bp for the "absolute token
  offset within the external (post-prefix) zone", which is right only then:
  without the condition `KernelsInPlace` fails at once, with block sizes 2 and 1,
  two ranks and one block cached.
- `IntervalAssumption` of `Eplb` asks for positive intervals.
  `_validate_config` (`ascend_config.py`) says "must greater than 0" and accepts
  0; with `algorithm_execution_interval` 0 the plan is fetched in the step whose
  end would wake the planner, and the rank hangs.
- In the `eplb` run the ranks agree on `eplb_heat_collection_status`. With the
  stages `prefill` and `decode` and DP batches that are not padded to one size
  they need not, their counters part, and one rank waits in the gathering of the
  loads while another waits in the forward pass: with a status of its own for each
  rank TLC reports a deadlock. (`EveryCycleEnds` would not: it speaks of the time
  after the loads are gathered.)
- A planner process that fails stops (`eplb_worker.py:417`), and the rank's next
  fetch of a plan never returns.
- In the dispatcher the flag is filled in for whole repeats of 8 status words
  (`cam_moe_distribute_dispatch.h:329`); in the runs the number of words is a
  multiple of the repeat, and the proofs state the condition as
  `EveryWordFlagged`. A word beyond the last whole repeat keeps flag 0, and its
  reader waits for ever in the first launch.
- More than 16 ranks in `matmul_allreduce_add_rmsnorm` can make
  `used_core_per_rank` 0, a divisor; `KernelAssumption` excludes it.

## 5. Bounds and fairness

Decode side: two requests of two tasks each, on two peers in opposite orders, so
that each peer's queue holds tasks of both and each request has tasks on both;
two threads, so that handlers overlap, or one, so that a peer waits for a thread;
`MAX_REQUESTS_PER_PEER_HANDLER` 1 instead of its real value, so that batches end
with work left. One of the tasks has no block to read (a full prefix cache hit).
`ABORT_REQUEST_TIMEOUT` plays no part on D, where nothing is delayed. In
`recv_endless` two requests keep one peer busy and a third has a task on each
peer. The threads of the executor are interchangeable, so `recv_cp` uses their
symmetry (`WorkerSymmetry`; its properties are all safety). Requests and peers are
told apart by the constants.

Prefill side: two requests, one of them read by two decode tasks or by one, the
other by none; `MaxMetas` 2 scheduler outputs on their way; a timeout of 1 and a
clock up to `MaxTime` 3, so that requests that end at different times expire at
different times. A request ends only while its timeout can still elapse before
the end of the clock.

Arithmetic: ranges that hold every remainder, the sizes 1 and equality, and more
of one thing than of the other in both directions.

EPLB has no bound besides its constants: a cycle is repeated without end. Three
ranks, so that an expert can be copied from one of two holders to the third; a
proposal that exchanges two experts between two ranks in both directions, one
that moves and copies, one with a move inside a rank and one that loses an
expert. `expert_heat_collection_interval` 2, so that steps with and without heat
collection are told apart, `algorithm_execution_interval` 1.

Operators: `MaxLaunches` 2 (`allreduce`), so that one rank's second launch meets
another's first, and 3 (`moe`), so that each window half is used again with the
other flag; five rows in splits of two, so that the last split is short;
`WORKSPACE_STAGES` 2 and 4 with up to 6 and 8 tiles, so that the ring is
reused. `FlagLimit` is the real 256. The
vector path of `AlltoAllDispatch` is taken in small batches when the number of
experts per token is a multiple of 8; `CountsAgree` compares its table with the
scalar loop for at most two per token, with definitions that hold for any number.

`CHECK_DEADLOCK FALSE` where the system comes to an end: the bounded clock of P,
the last launch, the last tile. Deadlock is checked elsewhere.

Fairness on D: the engine asks for the finished requests and the load errors in
every step, whether or not it also starts loads (strong fairness of
`get_finished`, which the loop of `start_load_kv` disables for a while, weak
fairness of the rest); the dispatcher and the executor's threads are threads the
operating system runs; a transfer returns because the engine has a timeout, a
signal because its retries are bounded. The engine is not obliged to start a
load. No fairness is assumed of the choice between success and failure. On P:
the engine keeps stepping and time passes; nothing is assumed of the decode ranks
and of DONEs. In EPLB and the operators: weak fairness of the next-state relation
only. There every step brings some program counter forward and the processes
wait for each other, so none can run on while another stands still. Nothing is
assumed of the heat status.

## 6. Proofs

Checked by TLAPS for every value of the constants that the named assumptions
admit. The first module of a component extends the component's own, the others the
one before; a component has several so that each is checked in a few minutes.

| module | what it holds | theorems |
|---|---|---|
| `KVCacheRecvingThreadOrder` | `TypeOK`, `LocalsOK`, `LoadOrder`, `QueueOrder`, `OnePlace`, `EndedOK` are kept | `TypeCorrect` |
| `KVCacheRecvingThreadHandlers` | `TrackedOK`, `FailuresOK`, `SignalsOK`, `HandlersOK` are kept | |
| `KVCacheRecvingThreadProofs` | `CountsOK`, `MarkersOK`, `ClosingOK` are kept; the safety properties follow | `Invariance`, `LoadedBeforeReportedHolds`, `FailureReportedHolds`, `InvalidBlocksFailedHolds`, `MarksClearedHolds`, `OneHandlerPerPeerHolds` |
| `KVCacheRecvingThreadRefinement` | each step is one of `LoadContract` or a stutter | `Refinement` |
| `KVCacheSendingThreadProofs` | the invariant of P | `Invariance`, `ReportedAtMostOnceHolds`, `BlocksHeldWhileReadHolds`, `NoExpiredLeftHolds` |
| `MoeDispatchCombineSignals` | the invariant of the flags and waits is kept | |
| `MoeDispatchCombineProofs` | the windows; the places at the shared experts | `Phases`, `Invariance`, `CoresInStepHolds`, `WindowsFreeHolds`, `SharedPlacesFilledHolds` |
| `AllreduceRowsProofs` | the deal of rows | `EachRowReducedOnceHolds`, `GatheredFromItsReducerHolds`, `RowsSharedHolds` |

Most proofs have the same form. A property is not inductive; `Inductive` is the
strengthening that is. Each of its conjuncts has lemmas for the steps that disturb
it and one for the steps that do not, a lemma on the next-state relation puts them
together, and the property is a consequence of `Inductive`.

### Decode side

For any set of requests, peers and threads, any number of tasks per request and any
batch limit. The assumptions are those of `KVCacheTaskTracker` and
`KVCacheRecvingThread`: every request has a task, every task a shard, the limits
are positive, and the placeholders are no task and no peer. Two theorems need
more, and say so: `InvalidBlocksFailedHolds` and `Refinement` assume
`BLOCK_SIZE_SCALE = 1` (`recv_scale` shows what happens otherwise), and
`Refinement` assumes `BlocksApart`, that no two requests share a block.

`_mark_request_task_done` announces a request when its count reaches zero and its
marker is set. That this means "all the tasks have ended" rests on facts about
every queue on the way, the conjuncts of `Inductive`:

- `LoadOrder`: `start_load_kv` queues the tasks of a request in order, and leaves
  none out;
- `QueueOrder`: `request_queue` holds exactly the queued tasks, in that order, so
  the task that sets the marker is submitted last;
- `OnePlace`: a submitted task is with the dispatcher, in its peer's queue or with
  one thread, and only there, so it is counted down once;
- `CountsOK`, `MarkersOK`: the count is the number of submitted tasks, and the
  marker is set from the submission of the last task to the end of the one that
  ends last;
- `EndedOK`: an ended task was read or has failed, and the requests that are
  announced have only ended tasks;
- `SignalsOK`: a thread that has ended its task still owes the DONE, and it alone;
- `ClosingOK`: of a request whose tasks have all ended, the tracker entry and the
  failure mark are there only while a thread is on its way to remove them;
- `TrackedOK`, `FailuresOK`: a request is tracked, then finished, then reported,
  and the ids waiting or handed out are those of the failed tasks;
- `HandlersOK`: the active peers are those with a handler to be submitted, queued
  or running;
- `TypeOK`, `LocalsOK`: a thread holds a task where its code uses one.

`LoadedBeforeReported` is a consequence of `EndedOK` and `OnePlace`, and `EndedOK` is
kept because of the others above it. `MarksCleared` needs `CountsOK`,
`MarkersOK`, `SignalsOK` and `ClosingOK`, because the state of a request is
cleared in three steps that other threads interleave with. `recv_cp` checks
`Inductive` with TLC. The cardinalities use the library's theorems on finite sets.

`Refinement` maps the initial states and every step. The steps that matter are the
reads and failures (a block is written or lost), the end of the last task (the
load ends), and the two calls of the engine. A block filled by several pulls is
why the whole of `Inductive` is needed: it is written only with the last of them.

### Prefill side

For any set of requests and readers, any timeout and clock. The assumptions are on
what D does: without context parallelism at most one reader per rank
(`ReadersAssumption`), with it no more readers than the number of DONEs the port is
told to expect, or one (`PortSendNumAssumption`; `PortsServeReaders` checks the
arithmetic behind it).

- `EntryOrder`: an entry passes from `_reqs_need_send` through the metadata to
  `delayed_free_requests`, overtakes none, and start times do not decrease. This
  is why stopping at the first entry that is not due misses none
  (`NoExpiredLeft`).
- `EntriesOK`, `BatchOK`: an entry belongs to a finished request, and a finished
  request is never put in `reqs_to_process` again.
- `ReportOK`: a reported request has left both `delayed_free_requests` and
  `reqs_to_process` for good, so there is no second report
  (`ReportedAtMostOnce`).
- `ReadersOK`, `DonesOK`: `port_send_num` counts the DONEs that came; until the
  last one or the timeout the request is not reported (`BlocksHeldWhileRead`). A
  DONE that comes again is the only one of its request (`OnlyDone`), so by then
  nobody reads.

`send` checks it with TLC. `ExpiredFacts` (the number of entries that
`_retrieve_expired_requests` takes) uses that a nonempty set of natural numbers has
a least element, `LeastNat`.

### Dispatch and combine

For any number of ranks, cores, tokens and launches. `PhasesOK` is about the cores
of one rank: the window half follows from the `Init`s passed, the flag is the parity
of those on this half, and no core passes a barrier before the others. `CoresInStep`
follows from it. `WindowsFree` also needs what ranks know of each other: the flag
of a word is the parity of its announcements (`FlagsOK`), and a core that has waited
n times for a word has had it announced at least n times (`WaitsOK`). A reader
compares a sum of flags only; as a flag is 0 or 1 and the target is none or all of
them, the sum tells every flag (`SumsTellFlags`), and as the launch before was
already announced, the flag it finds is not that one's (`WaitPassed`). All this under `EveryWordFlagged`, the condition of the
repeats in section 4. The invariant is not one of the runs' properties; TLC found
it to hold on the instances of `moe`, and with two experts per rank.

`SharedPlacesFilledHolds` is arithmetic, for every size without a mask: the rank
that `moeOnShareRank` gives is the one whose running quota covers the token, a
rounded-up quotient against rounded-down ones.

### Rows of the all-reduce

`DealtOnce` says that shares of ceiling size, the last ones short or empty, hold
every index once. `RowsShared` uses it at each level (splits, ranks, cores), and
assumes at least one core per rank for the gather; the run `arithmetic` evaluates
the same definition on small sizes.

### Only model-checked

- Liveness, which is beyond the prover: `EveryLoadReported`, `DoneAlwaysSent`,
  `EveryRequestFreed`, `EveryCycleEnds`, `EveryLaunchEnds`, `EveryTileTaken`, and
  the absence of deadlock.
- `MatmulAllreduce`: `Inductive` is an inductive invariant for its safety properties.
  `allreduce` checks its first part, `InStep`; TLC found all of it to hold on the
  same instance and on random behaviours of three and four ranks.
- `Eplb` and `GroupedMatmulPipeline`: inductive invariants not worked out yet.
- `OutputsCorrect` and `CountsAgree` of `MoeDispatchCombine`: they need the contents
  of the windows, token by token, on top of `Inductive`.
- `TilesDealt`, `HeadsComplete`, `SendersAreRead`, `PortsServeReaders`,
  `KernelsInPlace`, `CopiesExact`: what their loops compute would need induction over
  the data, which the installed provers do not do, or long nonlinear arithmetic.

## 7. Not modelled

- P/D transfer: the contents of transfers, the metadata cache (looked up, fetched
  and read again in three critical sections, `mc.py:751`) and the sockets; several
  KV cache groups (hybrid models) and the ports shared by them
  (`_set_hma_shared_port`, `mc.py:2651`, which changes ports after the DONEs were
  counted); the scheduler half of D, whose effect is that a batch of requests,
  each once, reaches `start_load_kv`; a request that D preempts or aborts while it
  loads, whose blocks vLLM keeps until the connector announces it; the stop of a
  process, which leaves nothing behind and is to P a reader that never sends its
  DONE.
- EPLB: the policies, the collection of loads, the record file, the first
  placement, planners that fail or find no loads. One proposal stands for the
  plans of all the ranks: the policies are taken to be deterministic.
- Sizes: prefill TP sizes that are no multiple of the decode's (`RemoteRanks`). In
  `MoeDispatchCombine` all ranks have the same batch and number of active tokens,
  and at least one of them, so that the combiner's early return for a rank without
  one (`cam_moe_distribute_combine.h:679`) is not taken.
- Operators: numeric contents and quantisation; in `MatmulAllreduce` the second
  vector subblock, which only takes part in barriers; in `MoeDispatchCombine` more
  than one expert per rank, for which another kernel is compiled, and the
  all-gather and reduce-scatter over TP (`if constexpr`), and the count beside the flag
  that the combiner overwrites with its status word
  (`cam_moe_distribute_combine.h:631`; it stays in the model, and no property
  depends on it); in
  `GroupedMatmulPipeline` the block of the first matmul (catlass, not in the
  repository), modelled as the second's without resident A, the FIX to M events of
  `InitL0C`, which are set and waited for in pairs and not used with the unit flag,
  and the block swizzle, whose order of tiles is that of the loop index (with one
  core the shuffled start along k is 0).
- The other parts of the repository, as listed in section 1. In particular
  `src/csrc` has some 270,000 lines, nearly all of them tiling, host registration
  and numeric code of a single core. The models cover a small share of it: the
  two operators above.
