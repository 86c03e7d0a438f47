# Verification of mini-infer

TLA+ modules, TLC runs and TLAPS proofs about the serving core of mini-infer:
the paged KV cache, the continuous-batching engine step with speculation and
CUDA-graph steps, the request streams, the life of the engine thread, the
disaggregated scheduler, and the state-cache schedulers with their tensor-parallel
servers. Every definition is translated from the Python source; `PROJECT.json`
maps each one to its lines.

Run everything from this directory:

    tlc -workers 4 -config MCPagedKV.cfg MCPagedKV     # likewise the other runs below
    tlapm PagedKVProofs.tla                            # likewise the other proof modules

## 1. The system

mini-infer serves LLM completions. An HTTP handler submits a request to a
scheduler and drains the request's output queue; one engine thread per scheduler
admits requests, runs batched forwards over a cache, samples, and puts the text on
the queues. Which scheduler serves depends on the model and the launch: a
`ContinuousScheduler` over a paged KV cache, a `PDScheduler` that splits prefill
from decode, or a state-cache scheduler for DeepSeek-V4 layers, alone or leading
the ranks of a tensor-parallel group.

| Component (under `src/src/mini_infer/`) | State | Operations | Model |
|---|---|---|---|
| `BlockPool` (`cache/block_pool.py`) | free list of fixed-size blocks | `allocate` (evicts from the prefix cache when empty), `free` | `PagedKV` |
| `PrefixCache` (`cache/prefix_cache.py`) | hash → block with reference count; LRU of unreferenced blocks | `lookup`, `publish`, `incref`, `decref`, `evict_lru` | `PagedKV` |
| `PagedKVCache` (`cache/paged_kv_cache.py`) | per slot: block table, length, prompt, blocks published | `add_request_slot`, `append_kv_packed`, `truncate_to`, `remove_request`, publication; static steps | `PagedKV`, `StaticSteps` (no `merge_request`, `free`, quantised writes) |
| `ContinuousScheduler`, engine step (`scheduler/continuous_scheduler.py`) | `_waiting`, `_running`, deferred tokens, cache slots | `_step` and its phases, `_async_decode_step`, `_preempt_on_oom` | `ContinuousScheduler` |
| the same, speculating (`engine/dspark/`) | anchor, proposal, drafter cache | draft, verify, truncate, reuse after an out-of-memory | `DSparkScheduler` |
| the same, lifecycle | `_thread`, `_stop_event`, `_stopping`, `_crashed` | `start`, `stop`, `submit`, `_engine_loop`, `_end_in_flight` | `EngineLifecycle` |
| Static steps, CUDA graphs (`engine/paged_*_graph.py`, `begin_static_step`) | staging memory, captured buffers, events, a stream | `accepts`, `begin_static_step`, plan, `replay`, `DeviceTokens` | `StaticSteps` |
| Request stream (`scheduler/request_state.py`) | bounded `StepQueue`, its listener | `put`, `get_step`, `get_step_async`, `_after_empty_poll` | `OutputQueue` |
| Disaggregated scheduler (`workers/pd_scheduler.py`, `decode_worker.py`, `prefill_worker.py`) | waiting, prefilling, handoff queue, decode session; one or two threads | admit, prefill batch, absorb handoff, decode step, `start`/`stop` with undrained threads | `PDScheduler` |
| State-cache scheduler (`scheduler/state_cache_continuous_scheduler.py`, `cache/state_cache.py`, `cache/state_prefix_cache.py`, `models/deepseek_v4/` layers) | fixed rows; per row and layer a window ring, compressors, an indexer; snapshots by prompt | admit into a row, ragged decode, store and restore a snapshot | `StateCacheScheduler` over `StateLayer` |
| Tensor-parallel serving (`engine/tp_state_cache_*`, `scheduler/tp_*`) | leader's scheduler, a cache per rank | two-part prefill broadcast, decode broadcast, per-step decisions, shutdown | `TPBroadcast`, `TPLockstep` |
| Greedy speculation (`engine/speculative.py`), `TextStream`, sampler | draft and target caches; ids not yet text | | not modelled, section 7 |
| HTTP API, handoff transport, model runner, kernels, models, `distributed/`, `quant/`, TPU backend, benches | | | not modelled, section 7 |

How they interact. API threads share with the engine thread only `_waiting`, each
request's `cancel_event` and output queue, and the lifecycle flags, with no lock
around any two of them. The engine thread calls the cache, which calls the pool,
which calls the prefix cache; these never run concurrently, but an allocation may
fail in the middle of any append, and the scheduler repairs the state and retries.
In the parallel mode of `PDScheduler` two threads do share a pool, beside a bounded
handoff queue. In tensor-parallel serving the leader's engine thread broadcasts each
operation and every rank then runs the same forward, whose collectives block until
all ranks have joined it. With CUDA graphs the host enqueues copies and replays that
the device performs later.

What is hard. The roll back after a failed append and the retry that must neither
repeat nor lose a token; rows that shift when requests end; sharing, swapping and
eviction of cached blocks; the forward that feeds tokens the host has not read;
pinned memory rewritten while a copy that reads it is still on the stream; a drafter
whose cache must follow the target's through partial acceptance and preemption; a
queue that drops steps yet must deliver the last one; a wakeup handed from a thread
to an event loop; liveness read by a handle while `stop()`, a crash and a later
`start()` go on; ranks that count a generation's end by themselves and must agree on
what the next message is; a snapshot that stands for the state of every layer of a
row. `PROJECT.json` lists each hazard at its line with the properties that would
catch it.

## 2. Modules

| Module | What it is |
|---|---|
| `KVStore` | abstract specification of the cache: each slot reads back exactly its own tokens |
| `PagedKV`, `PagedKVProofs` | pool, prefix cache and paged cache together, one step per loop iteration; its proofs |
| `ContinuousScheduler`, `ContinuousSchedulerProofs` | the engine step; its proofs |
| `OutputQueue` | the stream of one request |
| `EngineLifecycle` | start, stop, crash, submit, handles |
| `RequestStreamProofs` | proofs of both: the stream and the engine that fills it |
| `PDScheduler`, `PDSchedulerProofs` | the disaggregated scheduler with one or two threads; its proofs |
| `TPBroadcast`, `TPBroadcastProofs` | continuous batching on the ranks of a tensor-parallel group; its proofs |
| `TPLockstep` | one request at a time on the ranks of a tensor-parallel group |
| `StateLayer` | what a row of a state cache holds per layer, as operators |
| `StateCacheScheduler`, `StateCacheProofs` | continuous batching over those rows, with snapshots; proofs of both |
| `GreedyDecoding` | abstract specification: output grows along the target's own text |
| `DSparkScheduler`, `DSparkProofs` | speculative decoding in the continuous scheduler; its proofs |
| `StaticSteps` | steps replayed from CUDA graphs, host and device |
| `Segments` | segments laid end to end, as the rows and pages of a packed step are |
| `ForwardProofs` | proofs of `TPLockstep` and of `StaticSteps`: what a forward runs on |
| `Selections` | removing rows from a batch in order, as the schedulers do |
| `MC...` | the instance of each module that TLC checks |

The modules meet in four places. `ContinuousScheduler` counts blocks where
`PagedKV` identifies them; `DSparkScheduler` and `StaticSteps` refine one aspect of
the same engine step each (what is fed and kept, and how a step reaches the device);
every scheduler's queue is `OutputQueue`'s subject; and the race of `submit`, `stop`
and a crash, which the schedulers share, is `EngineLifecycle`'s (and `PDScheduler`'s,
for two threads).

### PagedKV

The three classes are owned by the engine thread, so their operations do not
interleave; the module still splits them at each loop iteration (`pc`), because
`allocate` may raise in the middle of `_reserve_new_tokens` and what it leaves
behind is what the roll back finds. `free_list`, `key`/`ref`/`evictable`
(PrefixCache), `blocks`/`len`/`prompt`/`published`/`parent` (PagedKVCache) are the
code's fields; `snapshot` is the scheduler's `_pre_forward_seq_lens`, which equals
the committed lengths between steps.

The K/V of a position depends on all tokens up to it, so `content` stores at each
pool position the token prefix the value was computed on, and `Computed` (the
forward, external) extends what it *reads* through the block table. A wrong
shared block therefore shows as a wrong prefix in everything computed from it. A
chained hash is the prefix it stands for, so collisions are left out. The prefix
cache is always on; the configuration without it is the part of the model in
which no prompt has a full block. All layers are written in one step: publication
happens on the last layer and a failure only on layer 0.

`ImplementsKVStore` is the refinement: under the mapping `Text` (gather through
the block table up to the committed length) every behaviour of `PagedKV` is one of
`KVStore`. Reserving, publishing, swapping, evicting and rolling back are stutters.

### ContinuousScheduler

`EngineStep` is the disjunction of the phases of `_step`, in the order `pc` gives;
`Submit` and `Cancel` may happen between any two. A token is `[req, pos, eos]`: a
token fed twice, skipped or taken from a neighbour's row is a different value. A
cache slot is the sequence of tokens fed to it and its block count; block
identity is `PagedKV`'s subject, block scarcity (`Available`, `AppendFails`) is
modelled here because admission, preemption and roll back depend on it. `Scratch`
blocks belong to the CUDA graphs and are never free. Sampling may pick an
end-of-sequence token at any position. One admission (an iteration of
`_admit_waiting`) is one step; the requeue of a request that does not fit takes it
from the front and puts it to the back in that step.

Left out here: speculating requests (`DSparkScheduler`) and prefix-cache hits at
admission (`StaticSteps`): a slot starts empty, so `tokens_prefilled` starts at 0.

### OutputQueue

One request. The producer is the engine in `_emit` or `_finish`: `put_nowait`,
on a full queue `get_nowait` and a second `put_nowait`, then the listener is read
and, separately, called. The reader is a handle in `get_step` (blocking, with poll
slices) or `get_step_async` (fresh event, listener set, clear, read, await), each
access a step. `RunCallback` is the event loop running the callback that
`call_soon_threadsafe` queued. A reader may use either call for each step.
`engine = "gone"` means that `engine_alive()` is False for good; that this implies
no later put is `EngineLifecycle`'s `NoStepAfterGone`. The proofs of the two are in one
module, `RequestStreamProofs`, which is why `QueueInit`, `QueueNext`, `QueueSpec` and
`QueueTypeOK` have names of their own.

### EngineLifecycle

Any number of callers of `submit` and handles, one caller of `start` and `stop`,
and the engine threads those start. The fields are read and written without a
lock, and each access another thread can tell apart is a step; in `Stop` the
writes of `_stopping` and `_stop_event` are one step, since the handle's answer
depends on the thread first. An engine step is any effect it may have here: admit
one request, finish one, nothing, or a crash. `late` marks the requests the
`_end_in_flight` docstring excepts: enqueued by a `submit` that read a live thread
and put after the drain. Their handles cancel them and raise. `JoinMayTimeOut` lets a
join end while the thread runs on; the run and the theorems take joins in time, since
what a later `start()` then meets is left to its caller (ADR-028: not "until the thread
of a timed-out `stop()` exits").

### PDScheduler

`EngineThread(t)` is a thread's code cut at every access of state that another
thread reads or writes: in serial mode one thread alternates between prefill and
decode, in parallel mode a prefill and a decode thread run beside each other, and
API threads submit, cancel, stop and start. `handoffs` is the bounded queue between
them, `session` with `decoding` and `kv` the decode batch, `batch` what a thread
holds only in its locals, which is exactly what a drain cannot see. Out-of-memory
may happen in a prefill (`held` blocks of its own cache), when a handoff is adopted
and in a decode step; the last two happen outside the `try` that turns it into a
cancelled request, and crash the thread. `stop()` joins, drains what no live thread
owns, and remembers in `undrained` the threads it could not join. A block holds one
position, since rounding is `PagedKV`'s subject.

### TPBroadcast and TPLockstep

Both have a scheduler on the leader, a broadcast channel per follower (`wire`, FIFO)
and the followers' loops (`fpc`). `Forward` is one step of all ranks together,
enabled when all of them are inside an operation, because the collectives in a
forward are a barrier. A message is its kind and payload, and a follower interprets
it by where *it* is in its loop, so a message taken for another one is a reachable
outcome and not an impossible one.

In `TPBroadcast` the leader runs the continuous scheduler over fixed rows; a
prefill is two broadcasts (header, then prompt), a decode one. `cache` is what each
rank has computed in each row, free rows included, since a decode writes all of them.
`Crash` may happen wherever the engine thread works, also between the two broadcasts of a
prefill. `Join` returns with the thread dead, or late and with the thread alive, which then
goes on; `Shutdown` is what `stop()` broadcasts either way. A broadcast on the wire has no
tag: `Misread` is what a follower may make of a message of the other kind (a header of the
ids, ids of a header or of a shutdown), and `owed` says that a header's prompt has not been
sent, so that `shut = "cut"` marks a shutdown that goes out in its place.

In `TPLockstep` the leader serves one request at a time and broadcasts before each next
forward whether the generation goes on and with which token; a rank leaves at `max_tokens`
by its own count. `GenerationFails`: whatever raises on the leader after the broadcast that
begins a generation (its cache, a forward, the sampling, emitting a token) fails the
request, and the followers are told nothing. They stay in that generation, in a forward
the leader left or waiting for a decision; `LeftBehind` are the requests that did so.
The leader goes on, and a later forward of another generation may meet theirs
(`ForwardMixed`): what the collectives then do is open, so it may happen or not, without
fairness.

### StateLayer and StateCacheScheduler

`StateLayer` gives, for the window, HCA and CSA layers, what prefill, the one-row
decode step and the ragged decode step write into a row: a ring of positions, a
compressor's accumulators and its compressed blocks, an indexer with a compressor of
its own. Entries are the tokens (and the index or rotary position) they were
computed from. `Attends` operators say which entries a query then reads. The
scheduler module keeps such a row per batch row, and `logits` records, for every
position a request computed, what its query attended to; so a row reused without a
reset, a counter not restored or a path that writes a block one position late is a
query that saw another text. Admission goes through a temporary one-row cache,
`filling`: `Admit` takes the request and prefills it, or restores the longest snapshot
that starts its prompt; `Replay` decodes one token of the rest; `Fill` keeps the
snapshot, samples and copies the row. Clients act between these steps. `PrefillTies` is the block `torch.topk` prefers among
equal scores.

### DSparkScheduler

Temperature 0: the target has one text per request, a token is its place in that
text, and everything else is `Bad`, as is whatever the target makes of a wrong
prefix. `Draft` is any proposal of the drafter and any confident prefix of it;
`Admit`, `Forward` (verify windows beside plain decodes and prefill chunks,
acceptance, roll back of both caches, emission) and `Preempt` follow the scheduler.
The phases that clients cannot tell apart are one action. `kv` is what the target's
slot holds and `spec` the drafter's cache, its context, the anchor and the proposal
that a preemption keeps for the next step. `Greedy` is the mapping to
`GreedyDecoding`: `output` is the emitted text, `reason` the terminal step's.

### StaticSteps

The host builds a step in pinned staging memory and enqueues copies, the plan and
the replay on `stream`; the device runs its head whenever it likes (`Execute`). An event
is modelled by what it waits for: the operations on that buffer still enqueued. A
bucket is the shape a graph was captured for; steps of other shapes run eagerly, and
steps that do not fit fall back. Pool, prefix hits, reservation before the replay
and the index tables of the step are explicit, so a stale table entry or a
rewritten staging buffer shows as K/V written to, or read from, another request's
block. Which free or evictable block the pool hands out is fixed to the least.

`Reserved`, `RolledBack`, `Published` and `Layout` say what a loop over the slots leaves
behind and not how it goes there: `Supply` is the order in which the pool would hand out
blocks, and each slot gets its segment of it (`Bounds`, `SegmentAt`, `Flat` of `Segments`,
which are defined by cardinalities). So stated, the pool and the index tables can be
reasoned about without an induction over the batch. `device` is one record and `Ran` maps
it, an operation and the pinned memory to the next one, so that a proof can speak of the
states the device will go through. Some names (`StaticInit`, `StaticNext`, `StaticSpec`,
`phase`, `RequestId`) are this module's own because its proofs share a module with those
of `TPLockstep`.

## 3. Runs

| Run | Instance and bounds | States | Shows |
|---|---|---|---|
| `paged_kv` | 2 slots, 4 blocks of 2 positions, slots up to 5, chunks up to 2, three prompts: two share their first block, two are exact multiples of a block | 571 108 | ownership, counts, prefix tables, roll back, every slot reads its own text, immutability of cached blocks, refinement of `KVStore` |
| `continuous_scheduler` | 4 requests (one empty, one larger than the pool), 2 rows, 3 blocks of 2 beside a scratch block, chunk 2, no headroom, device-side sampling | 385 137 | rows, tokens, slots, inputs, nothing after the terminal step; every request ends |
| `output_queue` | capacity 2, up to 5 steps | 11 973 | terminal step survives overflow, no lost wakeup, error last, reader ends |
| `engine_lifecycle` | 2 requests, 3 threads in turn, 2 stops, joins in time | 283 651 | empty begin, terminal before error, nothing after the error, handles end |
| `pd_scheduler` | 2 requests, both modes, one decode slot, 3 blocks, one client slow to read, 2 starts, 2 stops, joins in time | 242 514 | block balance, slot contents, no request lost, terminal after a clean stop, handles end |
| `tp_broadcast` | 3 requests (one refused), 2 rows, 2 followers, a crash anywhere, a join in time or late | 409 417 | caches agree, messages read as what they are, requests end, followers leave, up to a shutdown that cuts a prefill in two |
| `tp_lockstep` | 3 requests (one refused), 2 followers, 2 tokens, failed generations, late joins | 444 155 | ranks in one forward run the same one; requests end and followers leave, up to a generation that left them behind |
| `state_cache` | 4 requests, 2 rows, 1 snapshot, window 4, ratios 3 and 2, top-2 of the blocks, distinct scores, 8 positions, a stop | 531 790 | every query sees its own text whatever path wrote it, snapshots hold their prompt |
| `dspark` | 3 requests (EOS inside a window; up to `max_tokens`; window too large for the pool), 4 blocks of 2, drafts of 2, chunk 1 | 106 127 | drafter in step with its slot, refinement of `GreedyDecoding`, refusals only of requests that cannot fit |
| `static_steps` | 3 requests with a shared prefix block, 8 blocks of 2, decode graphs of 1 and 2 rows, a prefill graph of 4 | 245 712 | slots hold their own text, sampled ids are the next ids, accepted steps fit |
| `put_back` | 3 requests, one of which needs the scratch block too, on the pool of `continuous_scheduler` | | **violation**, see section 6 |
| `static_capacity` | 3 requests sharing 5 blocks of one position, a decode graph of 3 rows, 9 blocks | | **violation**, see section 6 |

Why the bounds are enough for the cases that matter. *paged_kv*: four blocks with
two slots of up to three blocks force allocation failures on the first and on the
second slot, eviction, and a hit on a block whose publisher has gone; prompts of one
and two full blocks give full hits (last-token rule), partial hits and duplicate
publication. Slots are symmetric, and `VIEW` ignores the K/V at pool positions that
neither a slot nor the prefix cache can read (they are written before any read).
*continuous_scheduler*: three blocks for two rows make appends fail at the first and
at the second slot, in the synchronous and in the asynchronous step; a third request
waits meanwhile, so a row is reused after a reap, and the request too big for the
pool is refused while the others wait. No request of that run is `Stubborn`: too big for
the blocks beside the scratch block and not for the pool. `EveryRequestEnds` excepts
such a request, and `put_back` has one. *output_queue*: five steps overflow a queue of
two repeatedly. *engine_lifecycle*: three starts let a thread follow a clean stop, a
crash that `stop()` ended and a crash that only `start()` saw. *pd_scheduler*: one
decode slot makes the second handoff wait and the bounded queue fill, so that the
prefill thread blocks while `stop()` begins; three blocks run out at each of the
three places; a second generation meets what the first one left. *tp_broadcast* and
*tp_lockstep*: two followers can be at different places of one broadcast, a
`max_tokens` of 1 ends a request at its prefill, and a row (a generation) is reused; a
message is misread where a shutdown or a failed generation shifted what follows.
*state_cache*: the window wraps and blocks of both ratios flush within eight
positions, in the prefill, in the replay after a snapshot and in the decode; one
snapshot makes every store evict. *dspark*: windows cross block boundaries, EOS falls
inside an accepted window, and the pool cannot serve both speculators at their
longest, so proposals survive preemptions. *static_steps*: steps are padded, exact or
too large for the graphs; the two-row decode graph shares a wrapper with no other,
and the device may lag by every step that the events allow.

Deadlock is checked in `paged_kv`, `static_steps` and `static_capacity` (a `Rest`
step marks the end of the workload). `CHECK_DEADLOCK FALSE` is set where the system
really stops: all requests finished, the stream read to its end, the starts used up,
the followers gone.

Fairness. None is assumed of clients, of `start`, of crashes or of lost time;
what is assumed is that a thread that can run does.
`ContinuousScheduler`, `DSparkScheduler`: weak fairness of the engine's steps, the
`while` loop of `_engine_loop`. `OutputQueue`: of the steps of a put that began (it
never blocks) and of the reader (`steps()`, `wait()` and the API handlers read in a
loop, and a poll slice ends by itself); none of producing steps, of finishing, of the
engine's exit or of the client's disconnect. The asyncio callback needs none, because
a poll slice reads the queue again. `EngineLifecycle`: of a call of `start`/`stop`
that began (the join returns once the thread is dead), of each thread's loop, of a
submit that began and of each handle's polling; none of starting, stopping or
crashing. `PDScheduler`: of each thread's loop, of the join and the rest of a `stop()`
that began, of a submit that began and of each handle. `TPBroadcast`, `TPLockstep`:
of the leader's engine, of a forward that all ranks have reached with one generation, of
each follower's receive, and of a `stop()` that began; none of crashes, failures and
mixed forwards. `StateCacheScheduler`: of the engine and the
join. `StaticSteps` has no liveness property and assumes none.

## 4. Proofs

Each theorem holds for every value of the module's constants that its `ASSUME`
allows.

| Module | Theorem | Statement |
|---|---|---|
| `PagedKVProofs` | `Invariance`, `TypeCorrect` | `Spec => []IInv`, `Spec => []TypeOK` |
| | `BlocksOwnedOnce` | `Spec => []BlockOwnership` |
| | `RefCountsAreExact` | `Spec => []RefCountsExact` |
| | `TablesStartWithThePrefix` | `Spec => []PublishedPrefix` |
| | `RollbackIsNeverRefused` | `Spec => []RollbackNeverRefused` |
| | `CachedBlocksStay` | `Spec => CachedBlocksImmutable` |
| | `SlotsReadTheirOwnText` | `Spec => []SharesOnlyItsText`, that is `PublishedPrefix` and `ReadsOwnText` |
| | `CacheImplementsKVStore` | `Spec => ImplementsKVStore`, that is `Spec => KV!Spec` |
| `ContinuousSchedulerProofs` | `Invariance`, `TypeCorrect` | `Spec => []IInv`, `Spec => []TypeOK` |
| | `RowsMatch` | `Spec => []RowsMatchSlots` |
| | `TokensOnce` | `Spec => []EveryTokenOnce` |
| | `SlotsHold` | `Spec => []SlotHoldsItsRequest` |
| | `InputsAreReady` | `Spec => []InputsReady` |
| | `TerminalIsLast` | `Spec => NothingAfterTerminal` |
| `PDSchedulerProofs` | `Invariance`, `TypeCorrect` | `Spec => []IInv`, `Spec => []TypeOK` |
| | `NothingLost` | `Spec => []NoRequestLost` |
| | `SlotsHoldOutput` | `Spec => []SlotHoldsOutput` |
| | `PoolBalances` | `Spec => []PoolBalanced` |
| | `CleanStopEndsRequests` | joins in time: `Spec => []CleanStopGivesTerminal` |
| `RequestStreamProofs` | `QueueInvariance`, `QueueTypeCorrect` | of `OutputQueue`: `QueueSpec => []QueueInv`, `QueueSpec => []QueueTypeOK` |
| | `TerminalStepIsKept` | `QueueSpec => []TerminalStepKept` |
| | `WakeupIsNotLost` | `QueueSpec => []NoLostWakeup` |
| | `ErrorComesLast` | `QueueSpec => []ErrorAfterLastStep` |
| | `Invariance`, `OneEngineThread` | of `EngineLifecycle`, joins in time: `Spec => []IInv`, `Spec => []SingleEngineThread` |
| | `StartsEmpty` | joins in time: `Spec => []BeginsEmpty` |
| | `CleanStopEndsRequests` | joins in time: `Spec => []CleanStopGivesTerminal` |
| | `LastReadIsFinal` | joins in time: `Spec => NoStepAfterGone` |
| `TPBroadcastProofs` | `Invariance`, `TypeCorrect` | `Spec => []IInv`, `Spec => []TypeOK` |
| | `CachesAgree` | `Spec => []RanksAgree` |
| | `FollowersInStep` | `Spec => []MessagesInStep` |
| `ForwardProofs` | `Invariance`, `TypeCorrect` | of `TPLockstep`: `Spec => []IInv`, `Spec => []TypeOK` |
| | `RanksRunTheSame` | `Spec => []SameForward` |
| | `RaisesAfterFailure` | `Spec => []RaisesOnlyAfterFailure` |
| | `StaticInvariance` | of `StaticSteps`: `StaticSpec => []StaticInv` |
| | `SlotsAlwaysHoldTheirText` | `StaticSpec => []SlotsHoldTheirText` |
| | `SampledIsAlwaysNext` | `StaticSpec => []SampledIsNext` |
| | `AcceptedStepsAlwaysFit` | the tables have room: `StaticSpec => []AcceptedStepsFit` |
| `StateCacheProofs` | `Invariance` | ties leave no choice: `Spec => []IInv` |
| | `QueriesAlwaysSeeTheirText` | ties leave no choice: `Spec => []QueriesSeeTheirText` |
| | `SnapshotsAlwaysHoldTheirPrompt` | ties leave no choice: `Spec => []SnapshotsHoldTheirPrompt` |
| `DSparkProofs` | `Invariant` | `Spec => []IInv` |
| | `DrafterMatches` | `Spec => []DrafterMatchesSlot` |
| | `RefusesTooBig` | `Spec => RefusesOnlyTooBig` |
| | `OutputMatchesGreedy` | `Spec => OutputIsGreedy`, that is `Spec => Greedy!Spec` |

*PagedKV.* From `PagedKVAssumption` alone (slots finite, block size at least 1,
prompts sequences of tokens, `None` not one of the values). None of the four safety
properties is inductive by itself: that a freed block is held by one slot only needs
exact counts for cached and exclusive ownership for other blocks; that
`RemoveRequest` frees the right blocks needs the table of a closed slot to be empty;
that an append reserves past the published blocks needs
`published[s] * BlockSize <= snapshot[s]`. `IInv` adds to them `ClosedSlots` (a slot
outside the batch has an empty table unless its removal is still freeing it),
`Filled` (table, lengths and prompt bound each other) and `Cursors` (where each loop
stands). The proof goes action by action; lemmas about appending to, removing from
and replacing in a sequence without repetition, and about the change of
`Cardinality(Holders(b))` by one slot, carry the table changes. `CachedBlocksStay`
follows because `WriteKV` writes only positions past `snapshot`, whose blocks
`PublishedPrefix` says are not cached.

The contents take a second invariant, `TextInv`, proved inductive relative to `IInv`.
`ReadsOwnText` alone is not inductive: a hit makes a slot read blocks another slot
wrote, so `CachedContent` says that a cached block holds the K/V of its key, position
by position; a publication that finds its key in the cache swaps the slot's block for
that one, which is then the same K/V because both are the K/V of the key. `AtSnapshot`
says that outside a forward no slot has claimed positions it has not written, which is
what makes a retry or a roll back invisible, and `HitIsProper` that a hit leaves a token
to the forward. The refinement of `KVStore` maps `SlotReady` to `OpenSlot`, `WriteKV` to
`Step`, `TruncateTo` to `Shrink` and the first step of `RemoveRequest` to `CloseSlot`;
every other action (pinning, reserving, publishing, freeing, rolling back) leaves `Text`
and `OpenPrompt` as they are, one lemma each. `NewPositionIsAlone` is the fact that
`WriteKV` rests on: the place of a new position is the place of no other position of any
live slot.

*ContinuousScheduler.* From `SchedulerAssumption` (finite requests, `None` not a
token or a number). The properties lean on one another through the rows: that a
forward feeds a request its own next token needs its row to be the row of its slot,
which needs every removal to shift slots, rows and deferred tokens alike. `IInv` adds
`QueueInv` (a request is waiting or running, once), `RowsInv` (rows grow with the
place in `_running`, and every slot is somebody's row), `RequestInv` (what each
lifecycle state implies), `TokenInv` (pending, deferred and emitted tokens are
consecutive places of the request's text) and `PhaseInv` (what each phase has
established). Lemmas about `Selected` and the rank of a place in it show that
the surviving rows are `1..n` again; `RollbackFacts` and `VictimFacts` describe a
failed forward, and there is one lemma per action.

*PDScheduler.* From `PDAssumption`, in both modes; only `CleanStopEndsRequests` assumes
that joins return in time. `NoRequestLost` needs to know that the threads which hand
a request on are the only ones: `ThreadInv` says that only the threads of the last
`start()` may live, that nobody drained them, and that some caller of `stop()` still
knows of them, which holds because `start()` and `stop()` drain only what no live
thread owns. `BatchInv` says when a thread has requests in its locals, `QueueInv` that
no request is in two places, `RequestInv` what a request's place implies (one that
ended is nowhere), `SlotInv` that decoding requests have a slot with their text.
`LocateInv` is the other half of `NoRequestLost`: until the drain, a request that has
not ended is somewhere. `StepKeeps` says what is left to show of a thread's step, and
`Moved` what such a step may do to a request. `CleanStopEndsRequests` adds `StopInv`:
after a `stop()` whose joins return no thread lives, `_crashed` is set exactly when a
thread of the last `start()` crashed, and a handle sees a dead thread that did not
crash only while `_stopping` is set. `PoolBalances` adds `PoolInv`: only running prefills
hold blocks outside the session, and that the session has slots of decoding requests
only, each once.
`Total(f, S)`, the blocks of a set of owners, is the cardinality of the set of pairs
of an owner and one of its blocks, so that the library's theorems about finite sets
give what a change of one owner does to it; a fold over the owners would need an
induction over data.

*OutputQueue.* `StreamInv` orders what was delivered, what is queued and what is
being put (a drop removes an intermediate step that no later one depends on);
`ReaderInv` relates the listener, the event and the callback on its way at each place
of the reader, which is what makes `NoLostWakeup` inductive.

*EngineLifecycle.* Assumes `~JoinMayTimeOut`: after a join that timed out a `start()`
can find the old thread alive, which ADR-028 forbids its caller and no code checks.
`ThreadInv` says which thread `start` and `stop` may
find, `DrainInv` what the drain has still to see, `RequestInv` where an enqueued
request can be, `HandleInv` what a handle has read.

*TPBroadcast.* `LeaderInv` relates the leader's place to its rows and to `owed`. `InStep`
says that a follower's place and its undelivered messages together are exactly what the
leader has sent since the last forward, a shutdown among them after a late join; it holds
until `shut = "cut"`. Of what the ranks read of one another afterwards only the types are
claimed, which `HeldInv` and `Misread` keep. A crash between the two broadcasts of a
prefill leaves followers waiting for ids, in step, until the shutdown cuts them off.
`RanksAgree` follows because a forward is taken by all ranks with the same operation.

*TPLockstep.* `QueueInv` and `LeaderInv` say that the leader's cache, with the token
it feeds next, is the prompt followed by the tokens it emitted. `FollowerInv` lists
the places a follower can be in during the leader's generation, and for each one
exactly which messages are still on its wire (`InStep`); the exception, `Lost`, is a
follower that is still in a generation which failed on the leader before its last token,
with what the leader sent later unread. With nothing unread it is so only while the leader
is in no generation, which is what `SameForward` needs of it. `RaisesOnlyAfterFailure` is the safety half of `FollowersLeave`: a
follower reads a message of the wrong kind only when a generation left it behind.

*StateCacheScheduler.* From `StateLayerAssumption` and `SchedulerAssumption` (sizes at
least 1, at least one row, prompts of tokens, `None` no request) and `ScoresDiffer`:
the indexer scores are distinct, or the prefill's `topk` breaks ties as the decode step
does. Without it two of the three paths may pick different blocks (section 6), so the
theorems would be false. The invariant reads a cache as a function of the text `x` it
was fed, which is what the code never writes down. `WindowHolds`: the ring slot
`p % Win` has the token of position `p`, for every `p` still in the window.
`CompressorHolds`: history row `b` has block `b` of `x` for each complete block, the
accumulator has the rest and, where blocks overlap, the block before. `RowHolds` says
so of the window, HCA and CSA layers of a row. `Counted` adds that the block counters are
`Len(x) \div m`; it is kept apart because `copy_row_from` leaves a counter behind and the
ragged step neither reads nor keeps one. What is beyond the text, the leftovers of an
earlier tenant of the row, is left open, which is what makes the reuse of a row without
a reset come out right.

The lemmas then go operator by operator. `PrefillHolds` and `StepHolds` show that a
prefill, a scalar and a ragged step keep a compressor in this relation to a text that
grew; `WindowPrefillHolds` and `WindowStepHolds` that a rotation and an overwrite keep the
ring; `RowRestored` and `RowCopied` that a snapshot and a copy lose nothing that will be
read. `WindowSeen`, `HcaSeen` and `CsaSeen` show that what the index tables of a query
gather from such a row is `Ideal(x)`, for the wrapped and the unwrapped window, for both
steps, and `PrefillSees` the same of each query of a prefill. The arithmetic of blocks
and slots (`DivMod`, `NextPosition`, `FewerBlocks`, `SlotsDiffer`) is stated for any
block size from the one fact that a position is a block and an offset. `IInv` says that
every decoding row holds `Prompt \o generated` of its request, every snapshot its
prompt, and the prefill underway the part of the prompt it was fed (`LaneHolds`,
`EntriesHold`, `FillingHolds`), that a request waiting has no row (`QueueHolds`), and the
types. A replay needs no induction: it is a sequence of `Replay` steps, each of which keeps
`FillingHolds`. TLC checked `IInv` on the instance of `state_cache` before it was
proved.

*DSparkScheduler.* From `DSparkAssumption` (at least one prompt token, one token to
emit and one position per block, window and chunk; `None` not one of the values), for
any drafter. None of the three properties is inductive by itself. `IInv` adds to the
types `Places` (who can be in the queue and in the batch, and that a forward has no
ended request) and, for each request, `Emitted` (what it emitted is the front of the
target's text, before EOS and within `max_tokens`, and it has a reason exactly when it
ended) and `Ready` (what slot, logits and drafter hold in each lifecycle state, with a
step in flight and without: before a seat nothing, while prefilling the prompt's front,
afterwards the text up to the last emitted token, with the next one pending, in the
logits or as anchor). `DrafterMatchesSlot` is part of `Ready`.

The forward is where the argument is long. `Windows` says that each request finds its
own rows in the packed logits and taps, whatever the batch feeds beside it: `Offset`
is the cardinality of the cells before the request, which needs no induction over the
batch. `Verified` says that the accepted drafts and the bonus are the next tokens of
the text, whatever was proposed; `OutcomeFacts` says where EOS and `max_tokens` cut
them; `NewRound` that the truncated slot, the truncated drafter cache and the new
context meet there again. `AdmitKeeps` covers the whole pass over the queue, and there
is one lemma per action. In the refinement every step moves each request's output as
`GreedyDecoding!Moves` allows, several tokens at once when drafts were accepted, or
leaves it. `RefusesTooBig` holds since `SpecBlocks` is 0 for a window the pool cannot
hold.

What the proof modules need of sequences without some elements stands with the proofs
that use it. `Without(s, gone)` is the set of such sequences, exactly one when no
element occurs twice; stated so, and not computed, it can be reasoned about without an
induction over the batch.

*StaticSteps.* From `StaticStepsAssumption`: sizes at least 1, and a shared prefix shorter
than the prompt, so that every request has a token of its own. The safety properties
speak of a device that has caught up, which the steps of the host never wait for, so
neither is inductive. `DeviceInv` says instead what the device *will* hold: there is a
state `e` that it `Reaches` from the present one by running all of `stream` with the pinned
memory as it is now, and `e` is `Settled`: every slot's positions, every cached block,
the ids the next step will gather and the inputs of a staged step are what the host
takes them for; on the way every forward samples what it should. A step of the device then
needs nothing (`ReachesRest`: it runs the head). A step of the host that enqueues
operations runs them at the end (`ReachesMore`), on a state known to be settled. A step
that rewrites pinned memory must leave what the stream will make of the device alone
(`ReachesSame`): it does when no copy that reads this memory is pending
(`RanSameInputs`, `RanSameLayouts`), which is what `InputsCopied` and `LayoutCopied`, the
two events, say. `HostInv` is the pool: published blocks are the cached ones, the others are
at one place of one slot and not cached, and a cached block has one key. It has one lemma
per operation (`ReservedGrows`, `RolledBackGrows`, `PublishedPooled`, `RemovedPooled`,
`AdmittedPooled`), and `GrownText`, `EvictedText` and `PublishedText` say that none of them
changes what a slot reads.

A forward is then a statement about one row. `LayoutDescribes` says what the tables of a
step say of each slot, its padding included; `RowReads` that a row reads the addresses of
its own request up to its own position; `PlacesDiffer` that no two rows write one address;
`RowReadsText` that it reads its text, from the pool or from an earlier row of the same
step; `RunFacts` puts them together for the decode graph, the prefill graph and the eager
path. There is one lemma per action of the host. TLC checked `StaticInv` on the instance of
`static_steps` before it was proved, with the one path `Follows` allows for its states.

`AcceptedStepsFit` needs `RoomInTables` besides: for every graph and every number `n` of its
slots, either the shared pages of all slots but one, `(n - 1) * PrefixBlocks`, are at most
`SlotsOf(b) + n + 1`, or `n` slots of the longest length fit in `NumBlocks + SlotsOf(b) + n`
pages. It depends on the constants alone and is what separates `static_steps`, whose
instance satisfies it, from `static_capacity`, whose does not and where the property
fails. `OwnPages` counts: pages beyond the shared ones are distinct blocks of the pool.

Only model-checked: all liveness. Liveness, `ENABLED` and induction over data are out of
the prover's reach.

## 5. What the properties exclude

Each property of a passing run has a mutant in `PROJECT.json`: a definition with a
plausible bug (a count not taken, a rollback skipped, rows shifted once too often,
a listener not called, a drain forgotten, a counter not copied with its row, an event
not waited for) under which TLC finds the property violated. The mutated forms are
the definitions marked `Mutant` in the modules; no action uses them.

## 6. Disagreements between the code and its comments

With a run that shows them:

- **A request that is put back for ever.** The permanent rejection
  (`continuous_scheduler.py:715`) compares with `num_blocks`, scratch blocks of the graphs
  included. A request that needs more than the others is meant to be refused by the
  comment above (`:710-714`), passes, and never finds enough free blocks; it is put back
  into the queue in every pass, as one that "fits in principle" (`:731`). (`put_back`.)
  `EveryRequestEnds` excepts it.
- **A step the graph accepts and cannot take.** `begin_static_step` counts a page per
  request and block, while the room of a captured step counts each block of the pool
  once. Requests that share prefix blocks can need more pages than there is room
  for: `accepts()` takes the step, `begin_static_step` raises, and the engine thread
  dies. (`static_capacity`.)

Met while modelling, without a run of their own:

- `_finish` (`continuous_scheduler.py:1195`) says that a full queue loses "the most
  recent intermediate step"; `get_nowait` removes the oldest. The stream keeps its
  promise either way (`TerminalStepKept`).
- `PDScheduler._end_in_flight` frees the slots of `_decoding`; a slot whose
  `add_handoff` ran out of memory half-way is in neither, so the pool does not return
  "to fully-free state" (`pd_scheduler.py:194`, `:241`). `PoolBalanced` is therefore
  stated up to such a failure.
- `tp_state_cache_continuous_scheduler.py:108-110` says of shutdown that "the engine
  thread has exited, so no broadcast is in flight"; the message is also sent after a
  join that timed out, and after a crash between the two broadcasts of a prefill. A
  follower then reads the shutdown's header as a prompt. This is `shut = "cut"` of
  `TPBroadcast`, the case that `RanksAgree`, `MessagesInStep` and `FollowersLeave` except.
- "The engine keeps running." (`tp_state_cache_scheduler.py:168`): when a generation fails
  on the leader its followers are still in it. One that waits for a decision takes the
  next request for it and raises, and the leader waits in the next forward for ever.
  `FollowersLeave` and `EveryRequestEnds` of `TPLockstep` except what follows such a
  failure (`LeftBehind`).
- "Three paths, all producing identical state for the same prompt"
  (`state_cache_generator.py:84`) needs distinct indexer scores: `torch.topk` of the prefill
  and the stable sort of the decode steps may pick different blocks among equal ones
  (`lightning_indexer.py:344`). `state_cache` uses distinct scores, and the theorems assume
  `ScoresDiffer`.

## 7. Not modelled, and why

Most of the repository's lines are kernels, model definitions, weight loading and
benchmark scripts: tensor arithmetic and measurement without protocol state. The
models cover the parts that keep state across steps, threads or ranks. What is left
out of the rest:

- **Paged cache.** `merge_request` and `free()` (the worker path, whose block counts
  are `PDScheduler`'s) and the quantised write layouts; hash collisions.
- **Disaggregated scheduler.** In the run, joins return in time; the action for a late
  one exists, and the theorems but `CleanStopEndsRequests` cover it. Allocation's test and pop are one step, which the interpreter lock
  gives; a second `start()` obeys the rule of ADR-028, which is its guard; in parallel
  mode the prefill thread does not crash. A batch that fails because of an empty
  prompt is an action no request of the instance takes. The cross-process transport
  stages tensors in shared memory and has no control state of its own.
- **State cache.** `submit` is atomic, its race with the drain being
  `EngineLifecycle`'s; joins return in time; the CUDA-graph decode of
  `cuda_graph_decode.py` is a captured form of the ragged decode that is modelled.
- **Tensor-parallel serving.** `generate_cohort`, the same prefill and decode
  operations driven by one call; the decode graph; a follower that itself raises or dies.
  A misread message is any of its possible outcomes, and which one the transport gives is
  left open.
- **DSpark.** Temperature above zero (rejection sampling is a statement about
  distributions) and the single-request runner.
- **Static steps.** The capture itself, and FlashInfer's own pinned workspace, a
  library's; the page that the pool evicts is fixed.
- **Greedy speculation** (`engine/speculative.py`) is the accept and truncate rule of
  `DSparkScheduler` for one request, sequential and used by no scheduler.
- **TextStream, tokenizers, sampler.** What `TextStream` returns depends on what the
  tokenizer library decodes of a byte sequence, which a model would have to invent;
  sampling is a nondeterministic choice wherever it appears.
- **HTTP API.** Validation and serialisation; its calls are the environment of the
  modelled components.

What would come next: an instance of `PDScheduler` with late joins, and the choice of
the block the pool hands out, which `StaticSteps` fixes, left open as in `PagedKV`.
