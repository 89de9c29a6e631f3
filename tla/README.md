# A TLA+ verification of lucebox's serving core

lucebox is a local LLM inference server (C++, `server/src`). One process serves
many clients: client threads queue requests, one scheduler thread advances all
live requests a step at a time, the requests share a paged KV cache that can run
out and a prefix cache backed by a directory of files, and the model may run on
several ranks that follow the first one. This directory models these protocols in
TLA+, model-checks them with TLC on small instances and proves the safety of the allocator,
the slot manager, the scheduler, the routing, the prefix cache and the disk store with
TLAPS for every size.

Paths below are relative to `server/src/` of the repository, docs to `server/docs/`.

## The system

| Part | Source | State | Operations | Modelled in |
|---|---|---|---|---|
| Paged KV pool | `common/concurrency/paged_kv_pool.*` | per sequence: block table, rollback stack, reservation, generation; free blocks, free slots, request index | acquire, reserve, append, rollback, clear, release, reset | `FreeList`, `PagedKvPool` |
| Slot KV interface | `common/concurrency/slot_kv.h` | what a caller sees of the pool: lengths and counts | the same, without reset | `SlotKv` |
| Slot manager | `common/concurrency/seq_slot_manager.*` | per slot: phase, position, prompt length, token history, staged tokens | admit, append/commit/rollback, reserve a cohort, detach/attach, evict/resume, retire | `SeqSlotManager` |
| KV offload | `common/concurrency/paged_kv_offload.*` | the rows of suspended slots in RAM, a byte budget | suspend, restore, discard | `SeqSlotManager` |
| Scheduler | `server/scheduler.cpp` | slots, deferred job, prefix waiters, compression stage, drains, plan counters | admit, cancel, park, plan, step, flush, reap, tear down | `Scheduler`, `StepLoop`, `StepPlan`, `DiskRead` |
| Step protocol | `common/concurrency/seq_engine.h` | none | plan_prefill_slices, validate_step_result | `StepPlan` |
| Job queue, client threads | `server/http_server.*` | linked queue, per job: done, client_disconnected, prepared | enqueue, dequeue, monitor, shutdown | `Scheduler`, `ModelRouting` |
| Routing and lifecycle | `server/http_server.*`, `engine/luce_engine.cpp` | reservations per model, waiting line, stop flags | route, reserve, wait, serve, stop, run | `ModelRouting` |
| Prefix cache, KV cache, captures | `server/kv/` | checkpoints, reservations, byte budget, engine payloads, the disk read in flight | plan, reserve, capture, prune, evict, read | `PrefixCache`, `DiskRead` |
| Disk store | `server/kv/disk_store.*`, `disk_prefix_cache.*` | files, index, budget, TTL, writer thread | save, load, drain, write, rename, reap, recover | `DiskStore` |
| Cluster | `cluster/`, hooks in `deepseek4/` | per rank: cache, snapshots, answer; frames, heartbeats, communicators | broadcast, decide, draft, accept, gather, snapshot, watch, exit | `Cluster` |
| KVFlash session | `qwen35/qwen35_backend.cpp`, `prefill_helpers.h` | pool rows, recurrent state, state ladder, history, snapshot | live restore, dense, adopted or consumed restore, prefill, answer | `KvFlashSession` |
| Engine | `qwen35/concurrency/qwen35_seq_engine.cpp` and two others | device tensors, graphs | step, admit, restore_kv, evict_kv | its calls on the slot manager; else a free choice |
| Pager internals, row pool, thinking budget, send buffer | `common/`, `server/client_send_buffer.h` | small, self-contained | | no |
| Model graphs, speculative drafting, kernels | `qwen35/`, `deepseek4/`, ... | tensors | numeric | no |
| HTTP parsing, SSE and tool formatting | `server/*.cpp` | text | conversions | no |

How they interact: a client thread picks a model and reserves one of its places
(`ModelRouting`), builds a job on its own stack, queues it and waits for `done`.
The scheduler thread takes it, may lend it to the compression thread (which puts
it back into the queue), may hold it as the deferred job or as a prefix waiter
(`Scheduler`), asks the KV cache what to restore, if need be from disk
(`DiskRead`, `PrefixCache`, `DiskStore`), and gives it a slot of the engine. Each
pass plans a step (`StepPlan`); the engine keeps one `SeqSlot` per live request
and calls the pool through `SlotKv`. When the pool cannot hold the next step of
all decoders the scheduler suspends slots to RAM, evicts them for recompute, or
fails them (`StepLoop`). A job that ends may still drain its last bytes to a slow
reader before its thread is released. Backends that serve one request at a time
have their own ways to go on from an earlier conversation (`KvFlashSession`) and
may span several machines (`Cluster`).

What is hard: the scheduler, the compression thread, reader, writer and client
threads and the stop request interleave; a job is handed between six holders by
raw pointer; admission, preparation, a step, a write or a send may each fail half
way; blocks of one pool are promised, staged, rolled back and given back over long
sequences of calls; a cached state is found by one name and holds what was written
under another; replicas must end alike although one decides; a crash may come
between any two writes; and everything has to end. `PROJECT.json` lists these
hazards line by line with the property that watches each of them.

## The modules

**`FreeList`** defines the min-heap free lists by what they determine: a set and
the ascending order its members leave in. `Lowest(S, k)` is what k calls of
`take_lowest` remove, `Without` what a vector holds after an erase. **`Totals`** defines
the sums that loops of the code add up.

**`PagedKvPool`** has one action per method. The effect of a method on a sequence
and on the free list is an operator on values (`extend_block_table`,
`rolled_back`, `cleared`, ...). A call that does not return `Ok` changes nothing
in the code and is a stuttering step here. Callers may present any handle ever
issued. Two history variables: `issued` (handles and their owners) and `promised`
(tokens a live reservation was granted for).

**`SlotKv`** is the abstract allocator: a sequence owns a number of blocks and
sees a number of tokens. `PagedKvPool` ends with the refinement mapping
(`CountsView`) and `ImplementsSlotKv`. The slot manager is written on `SlotKv`, so
what is checked of the manager holds on the pool.

**`SeqSlotManager`** models the manager, the offload and the engine calls that
combine them; all run on the scheduler thread, so one call is one action. A token
is named by its position in its request's stream, which makes a token that is
lost, repeated or misplaced visible. `rows` records which token's K/V each logical
position holds, `saved` what was copied to RAM, `stream` how many tokens the client
has, `pending` the scheduler's token still to be fed. The scheduler's part in the
folding of the pending token is included (`evict_kv`, `resume_recompute`).
`StepBoundary` says which calls happen only between two engine steps.

**`StepLoop`** composes the slot manager, unchanged, with the scheduler's policy
under memory pressure: in each pass resume the oldest parked request, reserve the
next step of the decoders, suspending the newest, parking for recompute the newest whose
tokens rebuild its rows, or failing one, until the rest fits, step, retire. A request with
images (`slot_has_images`, the DeepSeek engine's) can be suspended but not recomputed, and
a prompt that is staged outside the pool cannot be suspended; with `Recovery` off nobody
is parked. `admission_order` is the order of admission, `width` what the pass
reserved for each decoder, `todo` whom the step has still to advance.

**`StepPlan`** is what goes into a step and what is believed of its answer: short
prompts before long ones for `kShortFirstSteps` steps, turns of the decoders, the
dealing out of the token budget, and `validate_step_result` against an engine that
may miss, repeat or invent outputs. `deal` states in one formula what the grant loop
of `plan_prefill_slices` ends with; `DealIsTheLoop` in `MCStepPlan` compares the two
over every small envelope.

**`Scheduler`** models the life of a job. `admit_next` is one pass of the
admission loop (client gone, to be compressed, preparation failed, wait for a
leader's prefix, refused, busy, deferred, lost while the headers are sent,
admitted); `end_admission`, `idle_drains`, `cancel`, `step`, `step_fails`,
`teardown` and `flush_queue` are the other phases of the loop. What the engine
answers, which slots end, when a socket fails and when a timer fires are free
choices; it is busy only when it may be (`Busy`): live sequences hold what the request
needs, or the free slot's staging cache still belongs to a shared image pass
(`staging`), which a retirement leaves in flight (`DeepSeek4SeqEngine::retire`) and only
a step advances. A job's pointer is followed through every structure that can hold it.
The lists of the admission loop are sequences; a loop over one that erases or inserts
(`sweep_waiters`) is stated by the positions it keeps.

**`DiskRead`** is the same admission loop seen from `KvCache::plan`: the one disk
read in flight, its reader thread and the list of readers to join. A read belongs to
a job's *address*; a later request may live at the address of one that left.

**`PrefixCache`** has the index of checkpoints and the engine's payloads as two
owners of one slot, with captures reserved at admission and resolved many steps
later by events that may report success, failure or another ticket. `displaced` is
the payload a capture wrote over, `handed` what went to the disk writer. A backend may
space its restore points (`restore_point_spacing`, qwen4exp): the cut of a request that is
not its prompt's end is then moved back to the last point kept.

**`DiskStore`** keeps what `mu_` guards and the directory in one record; helpers map
records to records. `files` is what the directory shows now, `stable` what each name
may hold after a crash: data not synced may be lost or torn, a rename not synced may
be undone. The writer works without the lock between its steps; callers, loaders,
crashes, damaged files and the clock interleave with it.

**`Cluster`** has one record per rank for its place in a request, and what a rank
computes as the history its cache holds. A forward is a collective that returns
when every rank has entered it; frames, heartbeats, deadlines and the fatal exit are
actions of their own; a rank may die, freeze, fail or be late at every point.

**`ModelRouting`** has client threads that reserve, queue, wait or give up; the
serving thread of each model, batched or not; and `run()` from accept loop to return.
Testing the stop flag and falling asleep are two steps, as the flag is not set under
the mutex. An engine is busy when it has requests, or, for the models of `BusyWhenIdle`,
whenever it likes (DeepSeek4 after a pass left behind, see Observations).

**`KvFlashSession`** represents a K/V row and the recurrent state by the tokens they
were computed from, so that a row is right when that is the request's own prefix. The
pager is a number of chunks and whether they are in identity order; `placed` tells
rows written through it from rows written densely. Decoding forwards a pending token and,
in the speculative loop, drafted ones: a rejected draft leaves its row in the slot mapped
for it. `option` is the setup of the process, chosen at start. `spoiled` is a history
variable: it names what the steps under Observations leave inexact, until a cold prefill
or a restore replaces the session, or another snapshot the kept one.

**`MC*`** modules instantiate these for TLC. **`<module>Proofs`** holds the theorems
about a module (`PagedKvPoolProofs` also that the pool implements `SlotKv`,
`StepLoopProofs` also those about the slot manager, `SchedulerProofs` those about
`StepPlan`, `DiskStoreProofs` those about `DiskRead`), **`ListProofs`**
what several of them need of lists, counts and sums. The inductive invariants
stand at the end of the modules they are about (`PoolInv`, `ManagerInv`, `LoopInv`,
`SchedulerInv`, `PlanInv`, `RoutingInv`, `ReadInv`, `PrefixInv`, `StoreInv`, `ClusterInv`,
`EndingInv`).

Definitions called `<name>_<what is wrong>` are deliberately
wrong versions of the definition that follows them; replacing the right one by
the mutant makes the property named in `PROJECT.json` fail.

## The runs

| Run | Instance | Checks |
|---|---|---|
| `pool` | 2 slots, 3 blocks of 2 tokens, lengths up to 7, 2 acquisitions per slot | `BlocksPartitioned`, `RowsNeverAlias`, `ReservationKept`, `HandleNamesOwner`, `RetryReproducesRows`, `ImplementsSlotKv` (refinement) |
| `slot_manager` | 2 slots, 3 blocks of 2, context 7, bursts of 2, 2 blocks of RAM | `BlocksConserved`, `CacheMatchesHistory`, `HistoryIsStream`, `PrefillCannotStarve` |
| `pressure` | 3 slots, 6 blocks of 1, context 8, bursts of 2, 1 block of RAM, prompts of 1 and of 2 (these may hold images), caps of 2 and 8, chunks of 1 | `StepHasRoom`, `FeasibleRestoreDoesNotThrash`, `FailsOnlyAsLastResort`, `RequestsEnd` |
| `step_plan` | 3 slots, prompts of 1 and 3 tokens, a smaller envelope while requests decode, a faulty engine | `OldestPromptWaitsBounded`, `InStep` |
| `scheduler` | 3 jobs, 2 slots, two jobs compressed, one routed and able to wait for another's prefix | `HeldExactlyOnce`, `AnsweredOnce`, `NoOvertaking` |
| `scheduler_live` | 2 jobs, 2 slots, one compressed and able to wait for the other, one staged beside the slots, perhaps a pass that earlier requests left | `EveryJobEnds`, `StopEnds` |
| `disk_read` | 2 requests, 2 addresses, 1 slot, 3 states that may be stored, 1 change of a store | `RestoresOwnPrefix`, `ReadersHeld`, `HeadGetsOn` |
| `prefix_cache` | 2 requests, 3 slots, budget 6, 4 kinds of prompt, faults | `PayloadMatchesKey`, `CapturesExclusive`, `EvictedStaysReachable` |
| `disk_store` | 3 keys, each a prefix of the next, the third with the first one's hash; a budget of 2, room for 1 more than is on disk, 2 entries made, 1 event from outside | `RestoreIsExact`, `PublishedSurvives`, `IndexExact`, `NoWakeupLost` |
| `cluster` | a head and a worker, 2 requests, 2 tokens, blocks of 2, 1 snapshot operation, 1 fault of any kind | `SameEnding`, `ReplicasAgree`, `RequestReturns`, `GoesDownTogether` |
| `routing` | 2 clients, a batched model with 2 slots before a single-request one, 1 waiting place, a stop | `AnsweredOnce`, `ReservationsCoverWork`, `ShutdownCompletes` |
| `kvflash_session` | 3 requests, chunks of 2, a pool of 6, sessions of up to 8 tokens, 1 rejected draft per forward, 6 setups | `SessionExact`, `SnapshotExact` |

All pass. They show:

- the pool never loses, doubles or shares a block, keeps its promises, recognises
  stale handles and reproduces rows on retry, and no length falls behind the rows handed
  out;
- a retirement from any phase gives blocks and sequence back to the pool;
- a slot's cache holds its own history position by position through every order
  of bursts, rollbacks, suspensions, evictions and recomputes, and nothing sent to
  the client is lost or repeated;
- a request admitted or resumed cannot starve in its prefill; the reserve loop makes
  every step fit, fails a request of text only when it could not go on alone, one with
  images also when its checkpoint is lost or cannot be saved and no other decoder could be
  parked instead, and a restore allowed by `kv_restore_feasible` does not cause an eviction
  in the next step; every admitted request ends;
- the oldest prompt is overtaken for at most `kShortFirstSteps` steps with prompts, and a
  wrong answer of the engine never makes the scheduler feed a token twice or skip one;
- a job is held in exactly one place until it is done and nowhere after (its memory
  is then gone), is answered at most once, only left without an answer when its
  client is gone, its reader was dropped or it went back to the router, and not
  overtaken by a later one of its kind; every job ends, unless a pass left behind holds a
  slot for ever (see Observations), and a stop releases all clients;
- a request restores only states of its own prompt, from RAM or disk, whatever
  captures, reads and evictions other requests have in flight; no reader thread is
  lost and the head of the line gets on;
- what is on disk under a name is what was saved under it, what was reported written
  survives a crash, index, byte counts and directory agree, and nobody sleeps through
  the last wake-up;
- the ranks of a cluster that answer a request agree on tokens and cache, a request
  returns whatever fails, and when the head goes the workers go;
- a routed request is answered once, reservations cover exactly the work in the
  models, and `run()` returns;
- a KVFlash request reads rows and state computed from its own tokens, and a snapshot
  holds those of its key, unless one of the steps under Observations has spoiled the
  session or the snapshot.

Bounds and why they are enough. `pool`: the pool is smaller than the longest
sequence and two sequences compete for it, so exhaustion, partial blocks, stacked
rollbacks, slot reuse and the overflow guard (`MaxU32` stands for the largest
uint32_t, `GenerationBound` for the acquisitions explored) all occur; the theorems
remove the bounds. `slot_manager`: the pool (6 tokens) is smaller than the context
(7), so the headroom fallbacks occur, and RAM holds one full slot but not two.
`pressure` has three slots because parking one request for another matters to a
third, RAM for less than one long request so that suspension fails and eviction
follows, and a cap beyond the pool so that a request can be too long even alone; prompts
with and without images stand beside each other as decoders when a victim is chosen.
Recovery is on in the run; the theorems cover both settings.
`step_plan`: a prompt that fits one step and one that does not, three of them.
`scheduler`: two slots and three jobs is the smallest instance with a leader, a
waiter and somebody who takes the leader's slot; the view identifies states that
differ only in fields of finished jobs, which no longer exist, and slots are
symmetric. `scheduler_live`: two jobs cannot leave a pass in flight and a third be
deferred behind it, so `EarlierPass` starts some behaviours with the pass of requests
served before; the view leaves out what no action and no liveness property reads.
`disk_read`: two requests that can have each other's address, of
conversations that part after one message. `prefix_cache`: the budget holds two long
checkpoints, the slots three, so reservations compete for both; every cut is a restore
point, as for all backends but one, where the theorems cover the spacing; the prompts are three of
one conversation, one of them kept from the disk, and two strangers. `disk_store`: two
files fit once one of them is on disk, so a save evicts a queued one and a third
prompt prunes one of its two ancestors; the third is too large to be stored and shares
the first one's hash, so its loads meet another prompt's file. One event from outside:
a crash between any two steps, a damaged file, or expiry. `cluster`: one worker is enough for the
head and a peer to differ; two requests let one find what the other left; one fault
because each fault is meant to end in a restart. `routing`: the
first model may return a request as busy although it has a place, the second is too
small for it, and one waiting place is one less than the clients. Two clients never fill
the queue of a model (the 503 of `route_model_request`): that branch is covered by the
theorems, which hold for any number of clients. So is an engine that is busy with nothing
live: the run takes `BusyWhenIdle = {}`; with the first model in it the same properties
hold too, in about four minutes.
`kvflash_session`: a prompt that prefills densely, one that outgrows the pool, a third
turn to resume from what the second left. Its setups include those in which sessions are
spoiled; without any one of the exceptions the run finds a violation.

Fairness. *Scheduler*: the scheduler thread and the compression thread take steps
when they can, the clock reaches `deferred_retry_at`, a slot stepped again and again
ends (`n_gen_cap` bounds every generation, parked slots are restored oldest first once
the residents drain; `RequestsEnd` shows this in `StepLoop`) and a drain serviced again
and again ends (its deadline moves only when bytes move, and bytes are finite).
*StepLoop*: the pass goes on. *DiskRead*: the scheduler thread runs, every load
returns, admitted requests end. *Cluster*: threads that can run do, deadlines pass, a
frozen peer's heartbeats become overdue; a communicator need not notice an error by
itself. *ModelRouting*: every thread runs, a client thread gets `queue_mu_` some time
because the serving thread gives it up when it sleeps, and a served job ends. Nothing is
assumed of clients or of the stop request anywhere, and nothing of the engine but that
the slot manager's own busy answers need active sequences (`BlocksConserved`).

`cluster`, `routing` and `kvflash_session` may really stop (all ranks down, `run()`
returned, all requests served), so deadlock is not checked there; in the others a
state without a successor is an error.

## Observations

Places where the code, as modelled, does not do what a comment or a document says.
The runs' properties leave these cases out, as noted with each.

- *Cancellation during a cluster prefill.* `do_prefill` returns between chunks when the
  client has gone (`deepseek4/deepseek4_backend.cpp:4631`) and `generate_from_state`
  then succeeds without a token, on a cluster head too; nothing tells the workers.
  `cluster/cluster_decision_hooks.h:6` lists "whether EOS/stop/cancel ended the
  request" among what is decided once and shipped. The worker, waiting for the first
  decision, gets `RequestEnd` and ends the cluster. `SameEnding` leaves it out by
  `StoppedAlone`; without that conjunct `cluster` finds it.
- *Stop inside a speculative block.* The head keeps only the tokens it emitted
  (`deepseek4/deepseek4_dspark_spec.cpp:1829`) while the workers keep the accepted
  block; line 1832 says "A cluster head's local stop must not change what the ranks
  keep". The cache agrees, the token count in `RequestEnd` does not, and
  `handle_request` aborts. Also behind `StoppedAlone`.
- *Saving a turn after speculation.* `snapshot_save` broadcasts before it knows that the
  save can succeed (`cluster/cluster_head_backend.cpp:534`). After a speculative decode
  `last_logits_pos_` is -1 on every rank, so the workers fail first and exit; the comment
  at line 535 expects "The workers have taken the snapshot and this rank has not".
  `cluster` has behaviours without a fault in which the worker ends this way; no property
  forbids them.
- *A waiting request loses its place.* A waiter gives up its place while it probes a
  model (`server/http_server.cpp:2728`); returned busy, it may find the place taken
  and is answered 503 (line 2763). `MODEL_LOAD_BALANCING.md:93`: "Waiting ends when
  capacity becomes available, the client disconnects, or the server stops."
- *The resident budget of the prefix cache.* `KvCache::captured`
  (`server/kv/kv_cache.cpp:631`) prunes but never calls `enforce_resident_budget`, and
  `reserve_inline_snap` counts as freed an ancestor that stays when the capture's own
  victim was the shallower one. `PREFIX_CACHE.md:409` says the cache keeps committed
  checkpoints under the limit; three turns of one conversation can leave more resident. No
  run bounds the resident bytes.
- *An edit backup behind a checkpoint that is never written.* `persist_on_evict`
  (`server/kv/prefix_cache.cpp:995`) skips the disk for an edit backup while any deeper
  checkpoint of its conversation is resident, without asking whether that one will be
  written; a request can turn the disk off for its own state with `prefix_cache.scope`
  (`server/http_server.cpp:3006`). A plan of several evictions takes the backup first
  (line 815), then the deeper one, and neither is on the disk, although the backup's own
  request asked for it. `PREFIX_CACHE.md:149`: "Once the deeper snapshot is gone, the kept
  turn is that conversation's newest and is written like any other". It takes four slots;
  `EvictedStaysReachable` leaves it out by its third disjunct.
- *A staging pass left behind.* On DeepSeek4 a shared image pass holds its members'
  staging caches; `retire` does not drop it (`deepseek4/deepseek4_seq_engine.cpp:882`), and
  `step` advances it only while some prompt is staged (line 607). When its members and
  every other request have left, a request with images, or one that restores a prefix,
  that gets a member's slot is told to "retry after the pass" (189, 264), and no step will
  end the pass: it heads the line until its client leaves. `EveryJobEnds` leaves these runs
  out by `PassLeftBehind`. The comment at `server/scheduler.cpp:1006` calls busy with no
  live sequence "defensive".
- *An image refused in a live session.* `generate_impl` clears the cache before it looks
  at the image binding (`qwen35/qwen35_backend.cpp:1840`) and returns when that fails; the
  pager, the history and the ladder stay. `PREFIX_CACHE.md:485` says the rows "are still
  in the pool"; the next text prompt resumes at a rung over zeroed rows. A failed
  migration (2436) and a failed batch (2562) leave the old history too. `SessionExact`
  leaves such a session out (`spoiled`) until a cold prefill or a restore replaces it.
- *An exact hit on a dense snapshot.* It goes straight to decoding
  (`qwen35/qwen35_backend.cpp:2236`) under the mapping the previous request left; the
  comment at line 2762 says that prefill "(and snapshot restore)" rebuild it. `SessionExact` leaves a
  hit out when that mapping does not hold the snapshot's rows (`SpoiledBy` in `RestoreDense`).
- *A boundary snapshot inside a dense prefill after a restore.* The pager is reset only
  when `kv_offset == 0` (`qwen35/qwen35_backend.cpp:2418`); line 2419 says "A boundary
  snapshot before then must not see the previous request's mapping". `SnapshotExact` leaves
  such a cut out when that mapping is relocated (`SavedFrom` in `PrefillBatch`).
- A request that is not routed and reaches `enqueue` after the stop is finished without
  response bytes (`server/http_server.cpp:7399`, `3645`; the socket is then closed).
- The stop is notified without `queue_mu_`, so an idle scheduler may notice it only after
  the 30 s of `dequeue`'s timed wait; `ShutdownCompletes` holds because the wait is timed.

## The proofs

Every theorem is of the form `Spec => []Inv` or `Spec => [][A]_vars`, holds for every
value of the constants that satisfies the modules' named assumptions, and rests on one
inductive invariant per module, in `Cluster` on two: it holds in the initial states, every action keeps it
(one lemma per action), and it implies the properties. TLC checked each invariant on the
instances above before it was proved.

| Module | Theorems | Properties of the runs |
|---|---|---|
| `PagedKvPoolProofs` | `PoolInvariant`, `PoolTypeCorrect`, `PoolBlocksPartitioned`, `PoolReservationKept`, `PoolHandlesSound`, `PoolRowsNeverAlias`, `PoolRetryReproducesRows`, `PoolVacantSlotsBlank`, `PoolImplementsSlotKv` | all of `pool`, the refinement included |
| `StepLoopProofs` (the slot manager) | `ManagerInvariant`, `BlocksAreConserved`, `CacheAlwaysMatches`, `HistoryIsTheStream`, `PrefillNeverStarves`, `FeasibleRestoreNeverThrashes` | all of `slot_manager` |
| `StepLoopProofs` (the pass) | `LoopInvariant`, `StepsHaveRoom`, `LoopRestoreNeverThrashes`, `FailsOnlyInTheEnd` | the safety of `pressure` |
| `SchedulerProofs` (jobs) | `SchedulerInvariant`, `JobsAreHeldOnce`, `ClientsAnsweredOnce`, `NobodyOvertakes` | all of `scheduler` |
| `SchedulerProofs` (steps) | `PlanInvariant`, `SchedulerInStep` | `InStep` of `step_plan` |
| `ModelRoutingProofs` | `RoutingInvariant`, `ReservationsCoverTheWork`, `EveryoneAnsweredOnce` | the safety of `routing` |
| `PrefixCacheProofs` | `PrefixInvariant`, `PayloadsMatch`, `CapturesApart`, `EvictedStillReachable` | all of `prefix_cache` |
| `DiskStoreProofs` (the store) | `StoreInvariant`, `LoadIsExact`, `WakeupsReach`, `IndexIsExact`, `PublishedIsDurable` | all of `disk_store` |
| `DiskStoreProofs` (the read in flight) | `ReadInvariant`, `OwnPrefixRestored`, `EveryReaderHeld` | the safety of `disk_read` |
| `ClusterProofs` | `ClusterInvariant`, `ReplicasAgreed`, `EndingInvariant`, `ReplicasEndAlike` | the safety of `cluster` |

**Pool.** `PoolInv` strengthens the checked invariants by the types, the agreement of the
indexes (`IndexesAgree`) and two more facts. `TableFits`: a block table has exactly the
blocks its length needs; without it neither the rows of two positions can be told apart
nor the blocks cut by a rollback be counted. `IssuedInPast`: no handle is ahead of its
slot's generation; without it a fresh generation could collide with an old handle. The
argument: every method moves blocks between the four places of a sequence and the free
list (`Transfers`), a transfer between disjoint holders keeps the partition, and
cardinalities follow. `RowsNeverAlias` then is arithmetic: a row determines its block
and its offset. The assumptions are the constructor's own (`PoolDimensions`), that
request ids are positive (`RequestIdsAssumption`) and that the model's bound on
acquisitions is a number.

**The pool implements `SlotKv`.** The mapping forgets which blocks a sequence has and
keeps how many (`CountsView`). Each method maps to the operation of its name, or to a
stutter; the proof needs `PoolInv`, because a count of what a sequence holds changes by
the number of blocks moved only while no block is held twice, and one fact more
(`PoolVacantSlotsBlank`: a slot without a sequence counts no tokens), without which an
acquire would not start from an empty sequence.

**Slot manager.** The checked invariants say what the cache holds; they are kept only
because of what the other fields say. `SlotInStep` therefore states one slot completely:
history, staged tokens, rows and RAM copy are spans of the request's stream, and the
phase says which ones; the pool's length is position plus staged tokens; the blocks owned
cover them. `HandlesExclusive` keeps what happens to one slot's sequence away from the
others. `BlocksConserved` is a sum over the slots (`BlocksAddUp`), moved by one call at a
time (`TotalChange`); the reservation of a whole cohort moves several terms and is shown by
comparing sums. Its other half, that no sequence outlives its request
(`SequencesHaveSlots`), follows the active slots: only an admission makes a sequence live,
and only a retirement ends one. `FeasibleRestoreDoesNotThrash` then compares what the restored slot will
need with what `kv_restore_feasible` counted. The assumptions (`ManagerDimensions`) are
positive sizes and a pool and a context that a uint32_t can count.

**Step loop.** `LoopInv` is `ManagerInv` and what a pass adds: the orders of admission are
distinct and below the number of requests (`OrderExact`), no sequence outlives its request
(`SequencesHaveSlots`), a request between two steps is below its cap and its cap within
the context (`WithinCaps`), and whoever is still to be advanced owns the blocks of its
burst (`RoomReserved`). `SequencesHaveSlots` is what makes `FailsOnlyInTheEnd` true: a
request of text that fails has been left alone by the loop, so that all blocks it cannot
have are beyond the pool and not in the hands of a sequence nobody serves. With images in
its rows, a request fails only after a look at every decoder found none to park
(`VictimExists`), or when the checkpoint it was suspended to cannot be restored. The
assumptions (`LoopAssumption`) are positive prompts, caps and chunks, and that a RAM budget
means that recovery is on; it may be on with a budget too small for a block.

**Scheduler.** `HeldExactlyOnce` counts positions in six structures. `PlacedOnce` says the
same by membership, which a step of a sequence changes in one term, and `NoDuplicates`
connects the two. `AnswersCounted` ties an answer to the two places after it, the drain
and `done`. For `NoOvertaking` the line has to be described: `LineShape` (prompts that
were compressed stand at the front of the queue, the stage holds only prompts that still
are to be, only jobs with a shared prefix wait for one) and `LineInOrder`: of two jobs of
a kind the earlier is never behind the later, in the order deferred, prepared front of
the queue, in compression, staged, rest of the queue. The second needs the first: a
prompt that is returned to the front of the queue overtakes nobody because what is there
was compressed before it, and a job that is taken from the queue has nobody of its kind in
the stage. The assumptions (`SchedulerConstants`) are finite sets of jobs and slots.

**Step plan.** `PlanInv` adds to `InStep` only the types; what has to be shown is what a
step can do to a row. Slices go only to prompts (`SlicesArePrompts`), whatever the budget,
the rotation and the prompts held back. An answer that passes `validate_step_result` has
one output for each row that was planned, so a decoding request hears of exactly what was
fed and a prompt that is over for the engine is over for the scheduler; every other answer
ends all requests. The assumptions (`PlanAssumption`) are at least one slot, an envelope of
natural numbers and prompts that are not empty.

**Routing.** `FrameOK` says for each place of a client thread whether it has an answer, a
reservation or a place in the waiting line; `LineOK` that a model holds a job in one place;
`Held(m) = Pending(m)` that the jobs it holds are those whose threads wait for it. The
counters then follow the threads that take and release, on every path out of
`route_model_request`. A disconnect changes only who may go without an answer. The
assumptions (`RoutingAssumption`) are at least two models with places, one place for a
model that is not batched, and finitely many connections.

**Disk read.** That a request is restored from its own prefix rests on `ReadIsTheHeads`: a
read in flight was started for the request that is deferred now, and the address it
remembers still is that request's. An address can change hands only after its request was
finished, and a deferred request leaves only with its read dropped (a client that left) or
joined or dropped (a plan that is ready). `LineDistinct` says that whoever waits or is served
has one place and an address, so that a head taken from the queue finds no read of its own;
`ReadersTyped` that a reader returns the state of the key it was given, or nothing. A new
thread differs from all that were not joined by counting them. The assumptions
(`ReadAssumption`) are a positive number of slots, stored states that are token sequences,
and prompts that are not empty, which the slot manager refuses
(`common/concurrency/seq_slot_manager.cpp:120`).

**Prefix cache.** `PrefixInv` adds to the two checked invariants the types, `SlotsApart`
(a slot belongs to one checkpoint) and `CapturesLive` (a capture belongs to a live
request, so that an admission never overwrites one). Two arguments carry it. A reservation
is refused or `Fresh`: wherever `choose_slot` and the budget put it (`Placed`), its slot and
its further victims are nobody else's and its key is new, also on the second and third
attempt of a plan that weighs the queue's shared prefix. And a commit frees only what it
took out of the index: the evicted slots, the pruned ones and its own differ from those of
every entry that stays, because slots are apart before the commit and after it. The
assumptions are at least one slot (`CapAssumption`), budgets that are numbers
(`BudgetAssumption`), and prompts that are token sequences of at least one token with cuts
inside them (`QueriesAssumption`); nothing is assumed of the order of events.
`EvictedStaysReachable` follows the order in which a commit evicts, one victim after the
other, and then prunes. Of the checkpoints that extend an evicted one and were still there
at its turn, either one survives, and covers it, or the one evicted last had nothing left
that covered it and so went to the disk, unless its own flag kept it from there. Those
that pruning takes are prefixes of the new checkpoint, which covers what they covered.

**Disk store.** The helpers map one store to another, so each has a lemma per part of the
invariant (`Consistent`) and an action combines them; a step also says what it did to those
who wait (`Undisturbed`: pending bytes, queued ids and entries go only with a
notification, which is what `NoWakeupLost` needs). `Indexed` is the index by itself: no two
entries share an id or a file, every unwritten entry is in the queue once or in the
writer's hands, the counts are sums. Two parts are about the window in which the writer
works without `mu_`. `Written`: while the index still has the entry of the job, it is that
job's key and it waits; after the rename it is there, because the writer looked for it and
kept the lock. `Tracked`: what the directory shows belongs to the entries on disk, or is
the rename not yet synced, and only the writer has a temporary file. `Stored` relates the
directory to the medium: what is shown, save that rename, every outcome of a crash shows
too, under the hash of its own key. From the last, a crash or a damaged file leaves
something that `scan_all` can index again, and `PublishedSurvives` follows because the
directory is synced before the entry stops being pending. `RestoreIsExact` needs none of
this: a read compares what it finds with the prompt, and that is what makes colliding
hashes and replaced files harmless. The assumptions (`StoreAssumption`) are finitely many
keys, sizes, budgets and times that are numbers, and that `None` is no key and no file;
`Hash` and `Owner` are any functions of a key.

**Cluster.** `ReplicasAgree` speaks of the moment a request is over, when a worker's answer
and cache have been made from frames read long after the head sent them. `Together` says
how they hang together until then: there is one history `begun` that the request began
with, and every rank that is in it holds `begun` and its own tokens (`Holds`), where a
worker's tokens, and those in frames it has yet to read, are the head's own at their
positions (`HeadsOwn`). So a worker behind is not wrong, only shorter, and equal length,
which the head checks in the reports (`ReportRight`), makes it equal. That all ranks begin
with one history needs `SnapsAgree`: a slot the head can restore from is the same on a worker
once the operations still in its channel are done, or is empty there, in which case its
restore fails and the cluster ends. `Lockstep` and `Paced` tie the chunks of a prefill to the
collectives matched, which is what keeps a worker from taking part in the next request with
the state of the last. Nothing is said once the head is exiting, nor of tokens a head kept
alone after a stop inside a block, save that no worker can then report as many
(`Unmatched`). Deaths, freezes and cut frames need no case of their own: every part is said
of one frame or one rank. The assumptions (`ClusterAssumption`) are finitely many workers,
an end token in the vocabulary, and sizes and failures that are numbers.

`SameEnding` is about runs without a failure, and needs to know what every rank will do
next, not only that what it holds is right. `EndingInv` says it: as long as no fault has
happened, one of three cases holds. In the first (`InOrder`) every worker follows a
script: the frames in its channel lead, one after the other, from the frame it takes next
(`Due`) to the one the head sends next (`Script`); it has entered the collectives that the
head has, as far as those frames do not separate them (`Pace`); what it will read is of this
request (`Current`), what it is told to save it can save, and what the head can restore it
will have (`SlotsAlike`). From that, no hook finds a wrong frame, no deadline passes, no
save fails and no report is missing, so that each rank ends at the frame where the head
ended. The other two cases are the ways the code leaves that order without a fault: the
workers are shut down, or told to save what cannot be saved, and begin no other request
(`Done`); or the head has stopped alone for a client that left, and no worker will report
the request (`Alone`). `ClusterInv` is assumed in each step; `faults` only grows, so that a
step to a state without a fault is a step without one.

Only model-checked: liveness (`RequestsEnd`, `EveryJobEnds`, `StopEnds`, `HeadGetsOn`,
`RequestReturns`, `GoesDownTogether`, `ShutdownCompletes`),
because the prover does not reason about fairness and ENABLED; `OldestPromptWaitsBounded` of `StepPlan`, which is a
statement about the envelopes checked, not about every one (where the budget does not go
round, the rotation may pass over the oldest prompt); and the properties of
`KvFlashSession`, which has RECURSIVE operators, with which the prover loses its SMT backend. The equality of `deal` with the
loop it stands for (`DealIsTheLoop`) is a statement about a recursion and is compared over
small inputs.

## Not modelled

- Device graphs, kernels, sampling, speculative drafting, the tree verification and the cluster's collectives:
  numeric, or transfers by libraries and hardware outside the repository. What reaches a
  protocol (a burst of accepted tokens, a forward that all ranks enter) is modelled.
- HTTP, SSE, tool and template formatting, logging and status records: conversions without
  a protocol.
- `BlockingRowPool`, `ClientSendBuffer`, `ThinkingBudget`: local to one call or one
  request; where they reach a model (a reader dropped, a drain that ends or fails) they
  are free choices.
- The KVFlash pager's victim choice, host copies and DMA ordering: the data moved is
  outside the abstraction, a moved chunk is taken to keep its rows.
- The single-sequence lease protocol and the full-prompt cache of `KvCache`; several
  models in one disk directory are in `DiskStore`'s parameters (`Owner`) but not in the
  run.
- The cluster's handshake, park/unpark and frame encoding; placement and model loading.
- Memory exhaustion of the host (`std::bad_alloc`) appears as a call that fails without an
  effect, or, where the code leaves the slot for the caller to retire, as the retirement.

## Plan

1. Proofs: the sessions of KVFlash, once its recursions are folds.
2. The single-sequence half of `KvCache` composed with `PrefixCache`, and the full-prompt
   cache.
3. The cluster's handshake and the restart of all ranks; two workers.
4. `ClientSendBuffer` composed with the drains of `Scheduler`.
