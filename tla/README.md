# Verification of bnk

bnk is an inference engine for mixture-of-experts language models on one or two GPUs, with a
Python server in front of it. This directory holds TLA+ models of its concurrent core, the TLC
configurations that check them and TLAPS proofs about eight of them. Paths in this file are relative
to the root of the repository.

    tlc -workers 2 -config ServeLoop.cfg MC_ServeLoop.tla     one run (PROJECT.json lists them)
    tlapm ExpertExchange_proofs.tla                           one proof module

1. [The system](#1-the-system)
2. [The models](#2-the-models)
3. [The runs](#3-the-runs)
4. [Fairness](#4-fairness)
5. [The proofs](#5-the-proofs)
6. [Disagreements](#6-disagreements)
7. [What is not modelled](#7-what-is-not-modelled)
8. [Plan](#8-plan)


## 1. The system

    client --HTTP--> serve/server.py run() --> serve/engine.py generate()
                        |  conversations.py        | one JSON line per message, over pipes
                        |  loop_guard.py           v
                        |              src/server/serve.cpp: reader thread, worker thread
                        |                          |
                        |                  Generator (src/engine/generate.cpp)
                        |                          |
                        |         Engine | DenseEngine | DsEngine   (engine_api.h)
                        |          two stages, one per GPU (DenseEngine: or two tensor-parallel ranks)
                        |          |               |                |
                        |     ExpertCache      park.cpp        VramBudget, VmmRegion
                        |     ExpertStore      (host RAM)      (vmem.cpp)
                        |          |
                        |     CpuExpertPool -> SpinPool (worker threads)

| Component | State it keeps | Operations | What must be true | Module |
|---|---|---|---|---|
| Request driver, `serve/server.py` `run`; conversations, `serve/conversations.py` | tokens generated and fed back, slices, guard state; up to 32 conversations with status and tokens | drive one engine request; cancel and ask again when a slice is up or the guard fires; begin, status, end | an answer stays within its budget; the requests of a conversation do not mix; `S.waiting` is exact; every request ends | `Request` |
| Engine client, `serve/engine.py` | turns (`_running`, `_line`), one queue per request, the current process, readiness | generate, cancel, the two reader threads, restart | turns are neither lost nor doubled; an answer has one origin and one end; every call ends | `EngineClient` |
| Server loop, `src/server/serve.cpp` | queue, cancelled ids, requests in flight with slot and stop flag, lanes | reader: generate, cancel, reset, quit; worker: admit, read in chunks, rounds, lanes, drains | a slot serves one request; the lanes partition the requests; one answer each | `ServeLoop` |
| Generator and lookahead, `src/engine/generate.cpp`, `engine.cpp` | pending token and drafts; per stage: history, recurrent state, K/V cells, uncommitted rows, shadow state, lanes | start, next, next_lookahead, lookahead_abort; forward_lookahead, commit, spec_confirm, spec_discard | speculation never changes what is emitted; both stages stand at the same text | `Lookahead` |
| Forwards and prompt read of two GPUs, `src/engine/engine.cpp`, `prefill.cpp` | per stage: windows booked, mailbox, streams, hand-off rows; the prompt worker's job | forward_batch, forward_pipe, prefill, between_chunks, commit | no state consumes a wrong row; the logits sampled are the ones meant; every call returns | `TwoStages` |
| Conversations on the GPU, `src/engine/park.cpp` | per slot and stage: history, cells, recurrent state, snapshots; parked conversations in pinned RAM under a byte budget | choose, park, restore, fork, rewind, evict_idle_for, checkpoint | a restored conversation is the one parked, on every stage; what is in flight is not disturbed | `Parking` |
| VRAM budget and cache sizing, `src/core/vmem.cpp`, `expert_cache.cpp` | used and limit bytes, granules mapped; slots per layer | ensure, shrink_to, sync, make_room; shrink, grow, adapt | slots and experts name each other; what is mapped is charged; nothing is refused while the cache holds a slot | `VramCache` |
| Expert exchange, `src/core/expert_cache.cpp` | maps expert to slot and slot to expert, exchanges in flight, staging buffers, the helper's queue | adapt_exchange (finish, start, plan), copier_main, wait_exchanges | every expert is served from exactly one place, with its own bytes; no blob or stage is lost | `ExpertExchange` |
| CPU experts, `CpuExpertPool::run` of `src/cpu/expert_pool.cpp` | scratch buffers, per-group row counters, claim counters | run: quantize, gate/up with SwiGLU, down | every element is the sum of its token's tasks, computed from complete inputs | `CpuExperts`, `CpuPool` |
| Worker pool, `SpinPool` | `gen_`, `fn_`, `done_[]`, `stop_` | run, parallel, destructor, the workers' loop | each part of a job runs once; no worker outlives the closure it runs | `SpinPool`, `WorkBarrier` |
| Dense engine in tensor parallel, `src/dense` | per rank: residual, partial sums, recurrent states; exchange buffers; events | forward_batch, tp_prefill_chunk, commit | no partial is overwritten before the peer added it; the ranks agree | `TensorPair` |
| DeepSeek decode windows, `src/deepseek/ds_engine.cpp` | per stage: history, ring of latents, compressed groups and the open one; window places (`wins_`, `d_par_`), raw rows, commit graphs | forward_batch, forward_pipe, commit, checkpoint, rollback, reset | ring and groups are those of the tokens kept | `DsDecode` |
| DeepSeek prompt experts, `src/deepseek/ds_prefill.cpp` | two staging buffers, two streams with events, mapped tables, the guess for the next layer | pf_prefetch, pf_moe | every expert adds its part once, from its own weights | `PromptWaves` |
| HTTP front, tokenizers, templates, JSON | text | conversions | | none |
| Sampler, `src/engine/sampler.cpp`; `topk_rows` of `src/kernels/ops.cu`; `verify_window` | a row's candidates | select the K largest, cut to a distribution, accept or replace a draft | the GPU's head gives the host's distribution; drafts do not change what is drawn | `TopK`, `Sampling` |
| Sparse attention, `src/kernels/qsa.cu` | raw and pooled keys, a scratch of scores | store, pool, score, select, attend | no score of another text; each cell of the context is read once | `SparseAttention` |
| Routed experts on the GPU, `src/kernels/moe.cu` | hit and miss lists | plan, partial products per region, reduce | a row's sum depends on nothing but the row, and without `BNK_EXACT` on whether it is alone | `RoutedExperts` |
| Numerics: the products, dense and recurrent layers, drafters, vision | buffers | functions of their inputs | compared with references by the repository's tests | none |
| Web dashboard, telemetry, console, tools | displays | none | | none |

### Where the components meet

* **Calls.** `run` drives `generate`; the worker of the server loop drives a generator per slot,
  which drives the engine, which drives its stages. `forward_pipe` answers the second stage's
  CPU experts on a helper thread, so `CpuExpertPool::run` has two callers, serialised by its mutex;
  `SpinPool::parallel` has the engine thread only and takes none.
* **Messages.** Server and engine process exchange JSON lines over pipes, per request `prefill`,
  `tokens` ..., `done` or `error`. A cancel is a line of its own and races with all of them. A GPU
  asks the host for the experts it lacks through a mailbox per layer.
* **Shared memory.** Engine thread, helper thread and copy stream share the expert maps' blobs,
  slots and stages; the two stages share hand-off rows per lane; the ranks share exchange buffers;
  pool workers share the counters; every buffer of a GPU shares its memory budget.
* **Callbacks.** `between_chunks` runs rounds of other requests in the middle of a prompt's read,
  and `evict_idle_for` and the cache's `shrink` run inside a call that lacks memory.

### What makes it hard

Interleavings of threads and streams nobody can schedule in a test (pool, exchange, mailbox, tensor
parallel, commits); state that is half done when a request ends, is cancelled or fails (lookahead,
lanes, chunked prompts); answers that arrive after the question was withdrawn (cancels, process
restarts); limits that cut what was computed under the assumption they would not (context end,
staging buffers, slots, memory other programs take). PROJECT.json's `hazards` lists these at their
lines, with the properties that watch over them or the reason why none does.


## 2. The models

| Module | Models | Uses |
|---|---|---|
| `ExpertExchange` | exchange of experts between VRAM and host RAM | |
| `WorkBarrier` | what a worker pool promises (abstract) | |
| `SpinPool` | the generation-counter pool | implements `WorkBarrier` |
| `CpuExperts` | one layer's CPU experts, thread by thread | |
| `CpuPool` | `CpuExpertPool` as the engine calls it | composes `SpinPool` and `CpuExperts`, implements `WorkBarrier` |
| `ServeLoop` | reader and worker of `bnk serve` | |
| `EngineClient` | the server's threads around engine processes | assumes `ServeLoop`'s `EveryRequestAnswered` of a process that serves |
| `Request` | `run()` and the conversations | assumes `EngineClient`'s `OneTurnOneAnswer` and `CallEnds` |
| `PlainDecoding` | what a generator promises (abstract) | |
| `Lookahead` | lookahead decoding on two stages; verification of a sampled draft | implements `PlainDecoding` |
| `TwoStages` | forwards, commits and prompt reads across two GPUs | |
| `Parking` | conversations on the GPUs and in host RAM | memory as `VramCache` grants it |
| `VramCache` | memory budget and size of the expert cache | |
| `TensorPair` | two ranks of the dense engine | |
| `DsDecode`, `PromptWaves` | DeepSeek engine: decode windows; a prompt's experts | |
| `TopK` | the K largest of a row, as a block of GPU threads finds them | |
| `Sampling` | distributions of the host and from the GPU's candidates | `TopK` |
| `SparseAttention` | a sparse layer's stores, scores, selection and reads | `TopK` |
| `RoutedExperts` | a layer's plan of experts and its sums | |
| `MC_*` | instances for TLC | |
| `ExpertExchange_proofs`, `CpuPool_proofs`, `ServeLoop_proofs`, `EngineClient_proofs`, `Request_proofs`, `Lookahead_proofs`, `Parking_proofs`, `TwoStages_proofs` | the proofs | `CpuPool_proofs` has the pool's own, `TwoStages_proofs` the sparse attention's, the selection's, the distributions' and the routed experts' |

Every definition that stands for code is in PROJECT.json's `map` with its lines. Names are the
source's where it has one; an operator the source has inline is named for what it does.

**ExpertExchange.** Three actors. The engine thread is `pc`: a forward (`BeginForward` waits for
the copies queued so far, as `wait_exchanges` makes the stream do), and after some forwards the
three loops of `adapt_exchange`, one visit a step: `Finish` maps a refilled slot and releases the
blob, `Start` publishes the leaving expert's host copy, unmaps it and queues the incoming one,
`Plan` picks a candidate with a spare blob. The helper thread takes exchanges in queue order and
writes host copies (`CopierTake`, `CopierDone`); the copy stream moves blob to stage (`Load`) and
stage to slot (`Repack`). Memory is the expert whose matrices it holds, or `Junk` while being
written. The host and the device map are one variable, since the device map is written on the
compute stream ahead of every forward that follows. Which pair `plan_swaps` picks is left open
within its conditions. No slot is ever empty, so `adapt_exchange`'s branch for one has no action.

**WorkBarrier, SpinPool.** The pool's shared words are the variables (`gen`, `fn`, `stop`, per
worker `seen`, `done`), its actions the atomic accesses of `run` and of the workers' loop in
program order: publish `fn_`, bump `gen_`, run part 0, spin for every `done_`. Closures are
numbered, `closure[c]` is the one alive on caller c's stack. Callers are the engine thread, which
may take the lock (`RunLocked`) or not (`Parallel`), and helpers that exist only between
`CreateHelper` and `JoinHelper`, as in `forward_pipe`.

**CpuExperts.** The three jobs of a call: `Quantize`, the gate/up ranges (`Claim`, `GateUpRows`,
`CountRows`, `SwiGlu`), the output rows. Ranges are fixed slices (`Split`) or claimed chunks. An
activation is the set of what it was computed from and an output element the sequence of tasks
added into it, so that a row computed twice, never, or from unfinished inputs shows.

**CpuPool.** Each action of `CpuExperts` happens inside the pool's closure of its job, at the
thread that runs that part (`Compute`); a job may end only when every thread is through its part
and the pool's `run` returns, so the barrier is the one `SpinPool` builds out of `gen_` and
`done_`, not an assumption. `inside` is the lock `mu_` held over the three closures of a call.
`parallel` is one closure without work and without the lock. Everything of `SpinPool` is part of it.

**ServeLoop.** The reader queues and cancels; the worker's `wpc` walks through the main loop:
`TakeHead`, the drains (`PipeDrain`, `DrainOne`), `Admit`, `ReadChunk` with rounds in between,
`EndRead`, and rounds: `LookaheadRound`, `Batch`, `PipeStep`. `DeliverRound` is `deliver` for each
request of a round followed by the retirement of those that stopped, with `mark_busy`. A round's
content is one of three outcomes. `told` is what each id was sent; `moved` is a ghost that records
requests whose conversation was moved while in flight, and `undrained` one that marks the request
section 6 excepts. Engine failures are `EveryoneFails` (a round), `DrainFails`, `ReadFails`.

**EngineClient.** One process counter, per process what is in its pipes and its two reader
threads, per request the position in `generate`: turn, registration, wait for a ready engine,
send, read, `finally`. A process may lose its GPU, close its pipes and exit at any point after its
start; a send may fail. `Stop` and `cancel` are not actions: the first ends the server, the second
only makes an answer end earlier.

**Request.** `Handler(r)` is `run()` at request r, `Engine(r)` the engine's side of it (`Read`,
`Round`, `Stop`, `Broken`), whose events cross with the handler's cancel. `Found` gathers what can
stop an answer (a stop string, the loop guard, the time slice, a client that left) with its
outcome; `Yield`, `WrapUp` and `PassRest` are what follows each, with the failures the code lets
through. A prompt is a dialogue and how many turns of it the client has seen, which is what
`Continues` compares. Two history variables say what the code's own count does not: whether `run` has `heard`
that the prompt it asked for last was read, and whether what it asked for is the answer behind a
thinking block it cut off (`wrapped`), which `WrapUp` queues again and the code does not count.

**PlainDecoding, Lookahead.** One conversation, two stages, two lanes. The data are texts: a
recurrent state is the text it absorbed, a K/V cell or a lane's rows the text they were computed
over, `None` when that was not the conversation's. Each forward, commit and replay asks whether
what it reads is what it takes it for; over rows that are not, `Verify` may accept anything.
Cells past the history, rows of a settled window and a shadow nobody waits for are forgotten,
which makes a wrong read visible. `EngineChecksHold` collects the engine's own runtime checks
(`fwd_prepare`, `commit_here`, `spec_confirm`, `rollback`): no round comes to one that throws, but after a
speculation of one token, whose round commits nothing (`generate.cpp:590`). `unsettled` marks that window until
the failed round (`RoundFails`) or start (`StartFails`) behind it resets the conversation (section 6).

**TwoStages.** `Forward` is the main thread inside a forward (prepare, launch, service, wait, per
stage), `Prefill` the prompt's read with its callback, `Work` the worker that runs the second
stage of a chunk, `Service(g)` the answer to a stage's mailbox, `Gpu(g)` its graph layer by layer,
`Commit(g)` the commit stream. A row is the slot and position it belongs to and whether its token
is right; a recurrent state counts the right rows consumed in order and is `Junk` after any other.
A batch is a window per slot (of no rows for a slot not in it); the windows share the rows of a forward
without gaps (`Packed`), in any order. A commit stream has at most one commit per slot. Chunks may fail on
either stage.

**Parking.** One request at a time is chosen for (`Take`, `Choose`, then `ParkLive`, `MapContext`
with `Evict`, `Restore` or `Fork`, `Rewind`, `Read`), while those in flight decode (`Round`).
Each stage keeps its own copy of all state; a buffer is the sequence of tokens it was computed
from. `plan` is what was decided from one stage's entries and is carried out on every stage. A conversation's
buffer that cannot be pinned is given up everywhere (`Park`); a snapshot's throws (`ParkThrows`), from a request's own
parking or an eviction, and leaves an entry on the stages before (`on`), which fails the requests that choose it
(`SourceLost`) until it is dropped. An exception takes those it hits out of flight (`Lose`). What is
used, of a stage's cells or of `park_gib`, is the number of cells or bytes there are (`CellsOf`, `UnitsOf`).

**VramCache.** `Ask`, `Map`, `Refused`, `GiveBack` are a region's demand with `sync`, `make_room`
and the refund; `Shrink` compacts slots and is run by `MakeRoom` inside `Ask`; `Rebalance`,
`GrowLayer`, `GrowEnd` are `rebalance_here` layer by layer; `Adapt` and `FinishSwap` exchange experts in
place; `Other(n)` is another program. Bytes of a slot are the expert whose matrices they are.

**TensorPair.** The host enqueues operations on each rank's main and commit stream (`Forward`,
`Chunk`, `Commit`), the streams execute in order, waiting for events (`Execute`). An eager forward
and a captured graph enqueue the same operations on different streams (`graphs`). Each buffer
names the forward and exchange whose partial it holds.

**DsDecode.** Per stage and conversation a record `Seq` (history, ring, groups, open group,
window); per stage what exists once: the places of the last batch (`wins`, `d_par`), the raw rows of
each lane, the commit graphs. `ForwardBatch`, `PipeStep`, `PipeDrain` are the three ways to run a
forward; `Commit(q)` chooses a graph by its key and `RunCommit(s)` runs it on its stream, later.
A latent is a position and a token, so a stale row is told from a right one.

**PromptWaves.** The host walks groups and layers (`StartGroup`, `MoeLayer`, `CpuPart`,
`EndGroup`) and queues; two streams execute (`Copy`, `ReadTables`, `RowsOut`, `Gemm`, `Gather`).
A wait for an event is a number of operations of the other stream. A staging buffer is the expert
whose weights it holds, per place; an output row is what it was computed from.

The last four have no state of their own. They are one kernel launch or one call each, as operators
from what it is given to what it writes or reads, and are checked against what it should be for every
input within bounds. `MC_TwoStages` attaches them to the run of the forwards that use them, and
`MC_Lookahead` the verification of a draft to the run of the rounds: a behaviour there either decodes, or
is one such call (`launch`, `call`), whose input the invariants then look at.

**TopK.** A float is its bits, with the sign first, and `order_key` the unsigned integer of the same
order. `NextDigit` is a radix digit, `Selected` all of them; `Before` is the block's scan in two
levels, `Writes` the slots a thread writes, of both kinds of picks, and `topk_rows` the block's. Sums
are numbers of pairs (`SumOver`) and what a digit counts is a table (`Place`), so that they can be proved about.

**Sampling.** Probabilities are integer weights. `finish` is the cut by min-p and top-p over a head
that grows until the walk breaks: nothing is sorted, a candidate's place is how many are ahead of it (`Index`),
`Ends` are the places where the walk over a head would break, and the first of them counts; `Heads` are
the heads the loop may come to. `HostDistributions` and `row_distribution` are the two ways to it. A vocabulary is
larger than what the GPU selects (`kTopkMax`, 1024).
The verification of a draft is at the end of `Lookahead`: `Accepted` and `Residual` are `verify_window`'s treatment
of a draft that was drawn from a distribution or is certain.

**SparseAttention.** `Stored` is what a window leaves in the key cache and among the pooled keys,
right or of another text; the three `qsa_score_*` say which scores a kernel writes, `qsa_topk` which
blocks a row takes, and the three `qsa_attention*` which cells each kernel reads, how often.

**RoutedExperts.** `moe_plan` builds hit list, masks, weights and misses on top of what an earlier
window left (`OldHits`); the block's prefix sums are ranks (`Rank`). `part` is the product a region's
kernel leaves per entry and row, with the `lanes` that share a product, `moe_reduce` what a row adds up: each part
with its weight and its place in the sum. `regions` are as many as a launch takes, whatever bands the layer has.


## 3. The runs

| Run | Bounds | Distinct states | Shows |
|---|---|---|---|
| `exchange` | two layers (1 slot and 3, 2 experts; one spare blob each), two stages, two exchanges in flight | 101,000 | one place per expert; right bytes wherever a forward may look; owners of blobs, slots and stages, exact `busy_`, live queue (`Bookkeeping`); every exchange completes |
| `cpu` | caller and one worker; engine thread and one helper; 3 experts of 3 rows, 4 output rows, slices or 2 chunks; 2 calls, 7 closures | 66,500 | closures live, one at a time; outputs complete, from complete inputs; `WorkBarrier` implemented; calls return, workers exit |
| `serve` | 3 requests and a reset, 3 slots, 2 GPUs, budgets 3, 2, 2, two chunks, one engine exception | 441,000 | one slot per request, lanes partition the requests, half-done windows first (`EngineShared`); one answer; every request answered |
| `engine_client` | 2 requests, 1 slot, 2 processes | 236,000 | exact turns, one origin and one end per answer; every call ends |
| `request` | 3 requests (2 dialogues, two turns of one), 1 slot, register of 2 conversations, answers of 3, 1, 1 tokens | 400,000 | budgets; `S.waiting` exact for all requests but answers behind a cut thinking block; conversations apart; every request ends |
| `lookahead` | two tokens, windows of 4 rows, 3 drafts, 11 cells, prompts of 2, 2 requests; distributions over 3 tokens in quarters | 308,000 | the stages in step, no runtime check throws but after a speculation of one token; lookahead implements plain decoding; sampled drafts leave the distribution exact |
| `two_stages` | prompts of 4 or 5, chunks of 2, windows of 1 to 3 rows, 2 layers a stage, one with missing experts; 9 positions, 3 calls, 1 failure; 13 cells in blocks of 2, two selected; rows of 3 to 5 floats of 3 bits, 4 threads in warps of 2, weights 4, 2 and 1 by distance, 2 candidates from the GPU, heads of 1, 2 and 4; 3 experts, 2 a row, one cold band | 253,000 | no state consumes a wrong row; the right logits; every call returns; the K largest are selected once each (`TopKRight`), both paths give one distribution, a selection sees scores of its own text, every cell of a context is read once, a row's experts add up as in any window of its kind, with `BNK_EXACT` as alone |
| `parking` | 4 prompts, 2 slots, 2 stages (10 and 8 cells), contexts of 6, 2 snapshots, 16 parked cells; 5 requests, 1 failure to pin a conversation or a snapshot | 222,000 | conversations whole on every stage they are on; what was promised is there, but where its parking threw; limits kept; those in flight only grow |
| `vram` | 2 layers of 3 experts, slots of 2 and 3 bytes, 8 granules of 4 bytes, 2 swaps, other programs 0 or 2 granules | 43,700 | slots and experts name each other, right bytes; what is mapped is charged, refusals only with an empty cache |
| `tensor_pair` | 3 layers, 3 forwards or chunks, eager or graphs | 38,000 | no partial lost, the ranks agree; states in commit order, but for the peer's with graphs (section 6) |
| `ds_decode` | 2 conversations, 2 stages (one with groups), attention over 2 positions, ring of 5, contexts of 6 and 4, one draft, rewinds up to 2 | 343,000 | ring, groups and open group are those of the tokens kept |
| `prompt_waves` | 2 layers, 3 experts, buffers of one expert, 3 waves, guess of 2, 2 copies nobody waits for | 470,000 | every expert used adds its part once, from its own weights |

The type invariant of a module is a conjunct of its main one (`StagesInStep`, `StatesRight`,
`StateRight`, `ConversationsRight`, `EngineShared`, `OneTurnOneAnswer`, `ResultRight` and so on).

Why these bounds are enough for the cases that matter:

* *Exchange.* Exchanges of two layers run at once, one waits for a stage while another holds it, a
  blob freed by one is taken by the next, an expert that left comes back. Two exchanges in one layer
  are left to the theorems of section 5, which remove the bounds for safety.
* *CPU.* With three rows a group and two threads, slices and chunks cross group ends; the second
  call has fewer groups than the first, so stale counters would show; seven closures are two calls
  of three and a `parallel`. More workers only repeat what the one does: each has its own flag, and
  the theorems hold for any number.
* *Server loop.* Three requests give a two-request lane and a one-request lane, a request that is
  admitted while two decode, and one that leaves from either lane. A request may end by its stop
  token, its budget or a cancel, at its first token or later. Two chunks are one interruption of a
  prompt. The one exception may hit any forward.
* *Client.* One slot and two requests make one wait for the other; two processes are one restart,
  after which requests find an engine that never becomes ready again.
* *Request.* Two turns of one dialogue meet in one conversation while the third fills the register,
  so that the least recently asked conversation is dropped. Three tokens leave room for a slice
  that ends, a continuation, and tokens that cross a cancel.
* *Lookahead.* A window of four is needed for the case at the end of the context in which a
  chained window would be cut: with three, `deliver`'s stop at two cells from the end hides it.
  A speculation can be confirmed twice in a row and then fail. The second request may continue
  the text, share a prefix, or be new, and its predecessor may end with a half-done window.
  `Likely` gives the sampler one choice after most texts and two after some.
* *Two stages.* Two chunks and a tail keep both transfer buffers busy and reuse one; a forward
  between chunks meets a worker still in the previous one. Three calls are two lanes and a drain.
* *Parking.* The four prompts continue, share a prefix with, fork from, and are unrelated to one
  another; ten and eight cells hold one context of six and part of another, so every second
  request evicts or parks, and the stages disagree on when.
* *VRAM.* Slots of two and three bytes in granules of four straddle granule ends in both layers;
  other programs may take what the budget counted on before and after every `sync`.
* *Tensor pair.* Exchange buffers alternate by parity: three layers use each again
  within a forward, and the commit of one forward is still running when the next is enqueued.
* *DeepSeek.* The ring of five wraps in a context of six; a window of a token and a draft is kept
  whole or in part and opens, splits or closes a group of two; both conversations share a batch. A prompt
  group's three waves use the two buffers again while the guess already holds one.

The counters that would be infinite (`MaxRuns`, `MaxCalls`, `MaxTokens`, `MaxChunks`, `MaxFailures`,
`MaxProcs`, `MaxTurns`, `MaxPrompt`, `MaxRequests`, `MaxForwards`, `MaxLeft` and their like) are
constants of their modules, bound the action that counts, and are marked "bound" where they are
declared. Two cfgs have a VIEW: `DsDecode.cfg` leaves out which rows of finished windows lie in
device memory where nothing may read them, `PromptWaves.cfg` identifies states that differ in
numbers of operations already done. Deadlock is checked where the system never stops
(`exchange`, `vram`, `prompt_waves`); elsewhere it may stop (the pool is destroyed, the process exits) or a bound is
reached, and the cfg says so.

Each property of a passing run has a mutant in PROJECT.json: a plausible slip in the code (a stage
not given back, a lane formed with overlap, a shadow confirmed whatever the bonus token) that
makes TLC violate it under the same cfg. Mutants stand next to the definition they change.


## 4. Fairness

* **Exchange**: weak fairness of the engine thread, the helper and the copy stream, and strong
  fairness of a forward that is followed by an exchange. Decoding goes on while there are requests
  and `adapt_every_` rows call for the exchange again and again. An engine that is never asked
  anything completes nothing, and nothing waits for it.
* **CpuPool**: weak fairness of each caller's and each worker's steps inside a call. They are
  threads that spin or compute; none waits for another program. That a caller calls is not assumed.
* **ServeLoop**: weak fairness of the worker, a thread that waits only for the queue. The client
  owes nothing: no request, cancel or quit is ever assumed. No engine exception is either.
* **EngineClient**: one weak fairness condition over the threads of the client and over engine
  processes that serve (they answer, which `EveryRequestAnswered` shows of one) or are lost or
  closed (they exit). A healthy process is never assumed to end, a request never to arrive. One
  condition suffices because no behaviour can repeat these steps forever.
* **Request**: weak fairness of each handler thread, and of the engine's side of each request (it
  answers or fails, by `CallEnds`). A client is never assumed to leave, nor a turn to come.
* **TwoStages**: weak fairness of the main thread, the worker, each helper, GPU and commit stream.
  Threads compute or wait for each other; streams execute what is queued. Calls are not assumed.

The others are checked for safety only: they wait for nothing but their own threads' next step.


## 5. The proofs

TLAPS checks every obligation of eight modules, for every value of the constants that the modules'
assumptions allow. Each assumption is evaluated by TLC in a run. The assumptions on constants that
are more than the range of a parameter:

* the markers `None`, `Junk` are not values of the program: no identity (`ExpertExchange`,
  `SpinPool`, `ServeLoop`, `EngineClient`), no outcome of an answer (`Request`), no text (`Lookahead`), no
  position, forward or chunk (`TwoStages`);
* the threads of the pool are different (`SpinPool`), slots are finitely many (`ServeLoop`,
  `Parking`), as are staging buffers (`ExpertExchange`) and requests (`Request`);
* `PlacementAssumption` of `ExpertExchange` is what `ExpertCache::init` and `ExpertStore::build`
  leave: slots hold different experts of their layer, exactly the others have a blob;
* `ParkingAssumption` of `Parking`: a prompt and its answer fit in the context and the context in a
  stage's memory, as `serve` sees to (`serve.cpp:437`, `364`); snapshots are asked for at positions of the
  context (`Generator::start` ignores those not inside the prompt, `generate.cpp:227`);
* `TwoStagesAssumption`: a window has at least one row and at most `MaxWindow` of them, its first token is the
  one the request was given and so right (`Generator::share_rows`, `finish`); what is long enough to be read as a
  chunk may be a chunk or less (`PrefillMin`, `Engine::prefill`); the slot being read is not among those that decode;
* `SamplingAssumption`: weights fall with the distance to the largest logit and are not 0 before they end; a top-k
  is at most what the GPU selects (`Sampler::gpu_ok`), a sorted head grows;
* `VerificationAssumption` of `Lookahead`: weights are parts of a whole that is not 0, tokens finitely many;
* `SparseAttentionAssumption`: block, tile, split and window sizes are not 0, scores are not negative
  (`qsa_score_k` adds up products cut at 0);
* `TopKAssumption`: the radix is even, so that the sign is a digit's top bit; a block has whole warps;
* `FloatRowsAssumption` of `MC_TwoStages`: rows hold floats and are not empty; negative zero is no float of `TopK`;
* `RoutedExpertsAssumption`: a row's choices are at most the experts, a window has at most the eight rows
  `pack_tokens` has room for, cold bands are apart (`load_cold` refuses an expert in two), `lpr_for` gives 4 to 32;
* `ShapeAssumption` of `CpuPool`: the calling thread is thread 0, a task list is not empty and names
  tokens of the window.

| Module | Theorem | Statement |
|---|---|---|
| `ExpertExchange_proofs` | `ExchangeInvariant` | `[]IInv` |
| | `TypeCorrect` | `[]TypeOK` |
| | `EveryExpertServable` | `[]ExactlyOnePlace`: resident or with a host copy, never neither, never both |
| | `ServedBytesRight` | `[]RightBytes`: a mapped slot and a published blob hold their expert, complete |
| | `CopiesIntact` | `[]CopyIntact`: an exchange moves its expert's bytes, whatever the helper writes meanwhile |
| | `BytesAlwaysRight` | `[]BytesRight`, both at once |
| | `SlotsOwned` | `[]SlotOwners`: exchanges share no slot, expert or stage |
| | `BookkeepingHolds` | `[]Bookkeeping`: who owns each blob, slot and stage, how many blobs, exact `busy_`, a queue of live exchanges |
| `CpuPool_proofs` | `NoDanglingClosure` | `[]ClosureLives`: a worker executes only a closure whose `run` has not returned |
| | `OneClosureAtATime` | `[]OneClosure`, although `parallel` takes no lock |
| | `OneClosureAndAlive` | `[]OneLiveClosure`, both at once |
| | `PoolImplementsBarrier` | `Spec => Barrier!BSpec`: every part once, no return before all have ended |
| | `CpuImplementsPool` | `CpuSpec => Spec` of `SpinPool`: the composed pool steps as the pool does |
| | `CpuOneLiveClosure`, `CpuImplementsBarrier` | hence what is proved of the pool holds of the composed one |
| | `CpuInvariant` | `[]CpuInv` |
| | `ResultRightHolds` | `[]ResultRight`: every output row is the sum of its tasks, from groups complete when read |
| `ServeLoop_proofs` | `Inductive`, `Typed` | `[]IInv`, `[]TypeOK` |
| | `EngineSharedHolds` | `[]EngineShared`: a slot per request, lanes that partition them, half-done windows alone or drained first |
| | `AnsweredOnceHolds` | `[]AnsweredOnce`: one answer at most, nothing after it |
| `EngineClient_proofs` | `Inductive` | `[]IInv` |
| | `OneTurnOneAnswerHolds` | `[]OneTurnOneAnswer`: turns exactly as held, one process behind an answer, one end |
| `Request_proofs` | `Inductive` | `[]IInv` |
| | `AnswerBoundedHolds` | `[]AnswerBounded`: no answer longer than its request asked, across slices and guards |
| | `WaitingExactHolds` | `[]WaitingExact`: `S.waiting` is how many have come, or had their slice ended, and not yet heard that their prompt was read, whatever fails or leaves; answers behind a cut thinking block are not in it |
| | `ConversationsApartHolds` | `[]ConversationsApart`: no two requests in flight with one conversation |
| `Lookahead_proofs` | `LookaheadInvariant` | `[]LInv` |
| | `StagesInStepHolds` | `[]StagesInStep`: no check of the engine throws, but after a speculation of one token; both stages at what was emitted between rounds |
| | `LookaheadDecodesPlainly` | `Spec => DecodesPlainly`: lookahead implements `PlainDecoding` |
| | `VerificationExact`, `AcceptanceExactHolds` | any two distributions over any vocabulary: accepted or replaced, tokens come out as the target says; the same as `[]AcceptanceExact` of the run |
| `Parking_proofs` | `ParkingInvariant` | `[]IInv` |
| | `ConversationsRightHolds` | `[]ConversationsRight`: each conversation whole, in a slot the same on all stages, parked the same on those its parking reached |
| | `PromiseKeptHolds` | `[]PromiseKept`: what a request was chosen for is there to copy, on the stages its parking reached, and is what it starts from |
| | `RoomKeptHolds` | `[]RoomKept`: parked bytes within `park_gib`, every stage's contexts within its memory, room for a window past each position in flight |
| | `InFlightGrowsHolds` | `Spec => InFlightGrows`: no conversation in flight is moved, rewound or shortened |
| `TwoStages_proofs` | `Invariant` | `[]IInv` |
| | `StatesRightHolds` | `[]StatesRight`: no stage's recurrent state consumes a row that is not its slot's next right one |
| | `LogitsRightHolds` | `[]LogitsRight`: requests verified on their own windows' rows, first tokens from the prompt's last row |
| | `SeesItsTextHolds`, `SelectionSeesItsTextHolds` | whatever window is stored, its rows select by scores of this launch and pooled keys of the text; the same as `[]SelectionSeesItsText` of the run |
| | `EveryKeyOnce` | a row on its own, whatever it selected, reads each of its cells once: splits and tiles cover its keys |
| | `SharedReadOnceHolds` | rows that share a prompt launch read, each, every cell of their selection and tail once (`SharedReadOnce`) |
| | `ReadsOnceHolds`, `ContextReadOnceHolds` | whatever its scores, a row reads its context once: all of it, or the cells of its best blocks and its tail; this and `SharedReadOnce` as `[]ContextReadOnce` of the run |
| | `SelectsLargestHolds`, `TopKRightHolds` | any row of floats, any K, radix and block of threads: the K slots are written once each, with the K largest; the same as `[]TopKRight` of the run |
| | `SamePathsHolds`, `SameOnBothPathsHolds` | any row of a vocabulary larger than `kTopkMax`, any parameters: what the GPU's candidates give is a distribution the host could have, or refused; the same as `[]SameOnBothPaths` of the run |
| | `AddsUpAloneHolds`, `RowsAddUpAloneHolds` | any window, slots and number of cold bands, `BNK_EXACT` or not: a row's sum is its own, part by part and in its order, but for experts of bands past the third, for which it adds what an earlier launch left; the same as `[]RowsAddUpAlone` of the run |

None of the invariants is inductive alone. What had to be added, and why:

**ExpertExchange.** That `Finish` maps a slot with the right bytes rests on who
may have written to the slot and to the blob since `Plan`. `IInv` adds `MapAgrees` (a mapped expert
is the one its slot records), `StoreAgrees` (a published blob has one owner and is no spare),
`Owns` (what an exchange holds in each of its phases: before the start the slot is still
mapped to the leaving expert and the blob is no other expert's; after it the stage is taken, the
slot is recorded for the incoming expert and the leaving one is unmapped) and `Apart` (two exchanges
never hold the same thing). There is one lemma per action that moves ownership (`FinishInv`,
`StartInv`, `PlanInv`, `CopierInv`, `StreamInv`), one for the steps of `pc` alone, and one
(`AdvanceInv`) for what the helper's and the stream's steps share: an exchange changes phase and
keeps its identity. `Bookkeeping` needs a second invariant over it, `Kept`: every blob is spare,
published or of an exchange, every stage free or taken, every mark of `busy_` that of an exchange, no
more exchanges than stages, and the helper's queue lists exchanges that are waiting for it; the
numbers follow from bijections, not from counting steps.

**SpinPool.** `Entered` says who is inside `run` and why no one else (the lock, or the
engine thread with no helper alive), `Phases` that between runs every worker rests with its flag at
`gen_`, and during one each is in one of the five positions of `Progress`. The pool reuses one
`done_` word per worker across runs, and it is `Progress` that says a flag equal to the run's goal
was written in this run. The refinement lemma maps each step to a step of the barrier or a stutter.

**CpuPool.** `WInv` is about the computation, whichever threads run it: a chunk is held by one
thread, the lines of a chunk are untouched until it is claimed and computed once in order
afterwards, the counter of a group is the *cardinality* of its rows that were computed and
counted (so the thread that reads the last count, and only that one, applies the SwiGLU to a complete
group), and what one job leaves is what the next one reads. That all threads are done then means all
lines are: `Split` covers them, for which the module proves the arithmetic of integer division it
needs. The pool's part is inherited by `CpuImplementsPool`.

**ServeLoop.** `OncePerId` (an id is unread, queued once, taken, or in flight), `SlotsHeld` (a slot
from the admission to the end, by what the worker does now or after `la_drain`), `PipeHeld` (the
pipeline runs from the main loop only), `HalfDoneHeld` (half-done windows are of one request, or
`la_drain` has them before it) and `NoAnswerYet` (none given while one is owed).

**EngineClient.** `Trace` collects everything that could still reach a request under an id: the id
in a process's inbox or output, its queue, what its client was told. `OneOrigin` says all traces
lead to one process, `NotSentYet` that an id that was not sent has none; a restart, a death
or a late answer moves traces and never adds one. Turns are exact because `InLine` keeps every
waiting thread in the line, so that a turn given back wakes one that is there.

**Request.** `EventsInOrder` (a prompt's end first, an answer's end last, nothing without a slice under way)
makes the tokens among the events countable; `WithinBudget` then bounds the tokens yielded, those
under way and those the engine may still make *together*, which is what a continuation or a stop
string must preserve. `CountedUntilRead` ties the flag behind each unit of `S.waiting` to what a handler has asked and
heard (`ToBeRead`), and that to what is still under way from the engine, so that a cancelled, failed or repeated
question is uncounted once; `Conversations` has one register entry per identity, older than `nextId`.

**Lookahead.** `LInv` names one text `d`, the one both stages have committed. `Still`, `Drafting`,
`Ready` and `Round` say for each phase how far each stage, its lane, its cells and the client are
after `d`: `Ran` is a stage with a window under way (`Inside` says when a window of one row is committed
within its forward: not on stage 0 when it was a speculation; after such a round `First` is `Behind`, the state one
token short of `d` with the row waiting, and only a reset leads on from it), `Speculated` the shadow with the chained window over the
text and the window whole, in the other lane, with the slack at the end of the context that keeps it
from being cut (`WindowIs` uses it: a half-done window always fits). `Snapshots` are of prefixes of
`d`, the same on both stages, from which `ResumeIs` shows both stages resume at one place with the state of
what the texts share. There is a lemma per action; `d` grows in `Start`, `Confirm` and
`Commit` alone. The refinement follows from the invariant: the tokens a step sends are
those of the verdict (`OutIs`), which the model gives after `text`.

**Verification.** The weight of a distribution is counted unit by unit (`Units`), so that what the target has more than
the drafter, and the drafter more than the target, are differences of two sets of `Mass` units each (`ExcessTotal`,
by a bijection) and equal (`Balanced`). That is the mass refused and the mass the residual is drawn from: each
token gets back what it lost (`VerificationExact`). When nothing is refused the residual is empty and not drawn.

**Parking.** Between the decision of `select_conversation` and the copy, conversations are parked,
entries dropped to make room and slots evicted. `SourceThere` says what all of that must leave: the
entry, or the slot neither in flight nor the request's own, that still offers the prefix promised
(`Offers`: a position it can return to, inside what it shares with the prompt). `SameEverywhere` is
why one decision, made on stage 0's copy, is right for all: the stages hold the same conversations, parked ones
as far as their parking came (`Reached`: stage 0 has every entry, so no decision is made on an entry it lacks), except
in the request's slot once the live one was parked to be replaced: when pinning failed half way, some
stages have given its snapshots away and others have not, until the copy replaces it on all. `AllSound` adds to `ContentRight` what makes the
copies sound in their turn: snapshots are of prefixes, few enough, and two parked entries never
share a number. `ParkOutcome` is what any parking leaves, whole, given up or thrown half way, and `LoseInv` that an exception
after it restores the rest, since the slots it leaves half changed are those it resets. `Hands` and `WantMapped` carry `Ensure`'s size from the request for memory to the
forward that uses it; `WindowMapped` is what eviction and the cut after a prompt must leave to those in
flight. `ReuseIs` and `StartIsReuse` show that the two computations of what is kept (`reuse_of`, and
`start` with `rollback`) agree on any conversation and prompt. `RoomInv` is inductive beside it: only `MapContext` maps more, and by no
more than `Fits` found room for (`GrowthUsed`, counting the cells of the slot that grows apart from the others');
`Shrunk`, `Kept` and `NoRoom` take away (`NoMoreUsed`); only `Park` adds an entry, whose bytes fit beside those
spared (`ParkRoom`), which are the ones that stay because entries have numbers of their own.

**TwoStages.** What a state will consume was decided several steps, and often a thread, earlier, so the
invariant follows a window from the moment it is booked. `Accounts` says of each stage and slot which of
five places it is in: not in the forward (`Free`), in it and not booked (`New`), booked and not run (`Waits`), run
(`Ran`), or run with its rows left for the commit to replay (`Ended`), and what books, state, replay rows
and queued commits are in each. `Reaches` gives a state its value *once its queued commits are through*;
so no step of a commit stream changes an account, and that a graph reads a settled state rests only on
`BatchOK`'s `joined`, the wait of `join_commit_here`. `CallOK` keeps the batch of a forward and the one half way between the
stages in different lanes, so that a lane's replay rows and hand-off rows (`TransitOK`) are not overwritten
before they are read. `Level` says both stages' books agree on every slot not under way: between rounds
one window is planned for both from the first stage's. `ReadOK` is the prompt: the worker's chunk starts where the second
stage is, ends at what was handed on, and lies in the buffer the first stage does not write (`JobOK`);
the first stage is one chunk further while one is in hand (`Handing`), whatever rounds the callback runs in between;
and when nothing is left the last row of the logits is the prompt's last token (`FirstOK`), through the second
stage's `last_T`, which a round between chunks has set meanwhile. The rows themselves need no induction: a batch
is a function from rows, and `ThroughRight`, `AfterCommittedRight` say what a graph makes of it. There is a
lemma per action and part of the invariant.

**SparseAttention.** Lemmas for all inputs, with the arithmetic of integer division proved in the same module
(`QuotientIs`, `QuotientOf`, `CellsOf`). Each scoring kernel's set is shown to be `Scored`, for the tiled one by naming the
tile of a row and block; `StoredIs` finds every complete block among the candidates `qsa_pool` tries. Reads are counted
by bijection (`OncePerCell`): a read is determined by its cell, and each cell has one, in its split
(`SplitsOnce`), tile (`TilesOnce`), or in the union or the tails (`RowOnce`), where a lower bound in
a sorted selection finds just what is in it (`ContainsIs`). These take any selection in block order; that `qsa_topk`'s is
one, of the `TopBlocks` best blocks, is `SelectionIs`, from what is proved of `TopK`.

**TopK.** The one induction is over the digits, whose number is fixed: a recurrence of `Digits` steps has a solution, by the
least length that has none (`Recurrence`, with a step named by a set of functions instead of an operator), and so
`Place` and `Selected` are what their definitions say. `CutAt` is what a digit keeps: the keys above the prefix, and the
`want` still to be taken among those with it, are K together. `CutNext` is a digit: `DigitFound` says what the walk down the
bins finds, `DigitsCompare` that keys with one prefix are ordered by their next digit. After the last the prefix is
the K-th largest key (`SelectedIs`). The threads' part is counting: `BeforeIs` shows that the two-level scan counts all
earlier threads', so `CountedBefore` is how many of a set come before an index (`CountedBeforeIs`, over ranges that may
be empty or cut at the row's end, `RangesAre`), and the slot of a pick of either kind is how many picks come before it
(`PickedRank`): `ia + min(ie, want)` and `ia + ie` are two ways to say its rank. Ranks are a bijection (`RanksAre`), so no
two picks meet and no slot is left.

**Sampling.** What the GPU selects and what the host can reach (`Reached`) are both *leading* sets: whatever is ahead of
one of theirs is theirs (`LargestLeads`, `ReachedLeads`). In such a set places are those in the whole row, and everything
else comes after it (`LeadingPlaces`); so both walks would break at the same tokens (`EndIs`), the sums along them
are the same, and z is, because what is out of reach adds nothing (`ReachedSum`). How the head grows does not matter
(`FinishIs`): a cut in a part of the candidates is the first of all. The two results are then compared token by token (`HeadAgrees`): the
GPU's walk, where it breaks, breaks where the host's does, or where the host's candidates end. With top-k the two sets may differ by
equal tokens, and the host's choice is open: it may be the GPU's, and then nothing differs.

**RoutedExperts.** A row's sum is compared with `RowSum`, made of the row and the lanes alone, part by part; the lanes are
those of a window of one row with `BNK_EXACT`, and of two when there are more without (`LanesAre`). Pair and row are
each other's by the arithmetic of division (`PairsAre`). An expert with a slot has one first pair in the window, so entries and
such experts are one to one (`EntriesAre`), and what a pair's entry holds is its expert's slot, a mask with its row,
and its weight, the list's old content nowhere (`PlanServes`). A slot is one expert's, a cold
one's behind the hot ones' (`SlotsAre`: band and place in it are quotient and remainder), and lies in a region exactly when
its band has one, since those of later bands start where the last region ends or after it; the passes over packed
rows reach every row of the mask (`PassesCompute`); so the part is the expert's, from its own blob, or untouched (`PartIs`). A row's misses
keep their order among the window's, so their ranks are those of its choices (`RankKept`, `MissesAre`).

Only model-checked: every liveness property (fairness and ENABLED are beyond the prover); the memory,
tensor-parallel and DeepSeek models, whose queues and budgets are read through folds (sums and orders over data
that changes in size: induction over data).


## 6. Disagreements

Places where the code, as modelled, does not keep what its comments, documents or callers say or
rely on. TLC ends each with a violation of the property named, under the configuration named; where
that is a run's own, the property takes the place of its invariants and properties, with the constants changed that are given. None of them is
among the runs of PROJECT.json.

* **Tokens after the end of an answer** (`ServeLoop_afterstop.cfg`, `NothingAfterStop`). `la_drain`
  (`serve.cpp:507`) delivers a half-done window for an admission and may stop its request there,
  but only rounds retire requests: the stopped one takes part in the next batch, and its tokens are
  sent after its stop token or past its budget.
* **A conversation being read may be moved** (`ServeLoop_longprompts.cfg`, `InFlightStay`). A round
  between two chunks of a prompt retires a request and calls `mark_busy(-1)` (`serve.cpp:564`),
  which takes the slot being read out of the busy set; another request's forward may then park it.
* **A request answered after its error** (no configuration; the ghost `undrained`). When `la_drain`'s
  forward throws, its handler sends "error" and resets the slot but leaves the request among those
  in flight, where later rounds answer it again. `AnsweredOnce` excepts that request.
* **A retry that abandons a healthy engine** (`EngineClient_stale.cfg`, `RetriesOnlyTheDead`). The
  reader of a process that ends tells every registered queue (`engine.py:125`), those of requests
  already waiting for its successor included. Such a request reads the stale message after it was
  sent to the new process and gives that one up.
* **A conversation that is never free again** (`Request.cfg`, `ConversationsFreed`). What `run`
  passes on after its `finally` (`server.py:342`) may fail on a client that left, and the conversation
  then keeps the status of one with a request.
* **An error at the end of the context** (`Lookahead.cfg`, `ContextEndsCleanly`). The loops
  that draft step past the last cell when a round's drafts were all accepted near the end of the
  context; the drafter throws (`mtp.cpp:368`), the round's tokens are lost and every request in
  flight is told "error" instead of "done" with reason "context".
* **A window of one token nobody commits** (`Lookahead.cfg`, `WindowsSettled`). A lookup may copy one token, where an
  image follows (`until_image`, `generate.cpp:26`) or the drafter has no more room, and `forward_lookahead` takes a chain of
  any length (`engine.cpp:1117`). Stage 0 keeps its row to commit, as a speculation's; the round that completes it commits
  windows of several rows only (`generate.cpp:590`). The next forward throws "the previous verify window was not
  committed" (`engine.cpp:1597`), or the next prompt's first chunk does (`prefill.cpp:637`): the requests of that round
  end with an error and a reset. `docs/LOOKAHEAD.md:74` says that "a window without drafts must commit inside its
  forward as it does on the plain path". In the model the failed round or start is part of the behaviour
  (`unsettled`); that the conversation may be parked meanwhile, one token short on stage 0, is not.
* **A conversation parked on some stages only** (`Parking.cfg`, `HeldEverywhere`). `park_copy` pins memory for each
  snapshot by `ck_take`, which throws (`park.cpp:123`), past `park` (`park.cpp:205`) and its `drop_parked_id`: the
  stages before keep the entry, the one that failed has none. A later turn that chooses it, which
  `park.cpp:8` says "proceeds exactly as if it had never been away", fails with "a pipeline stage lost the
  parked conversation", and so does the next, until the entry is the least recently used or superseded. (The failed stage's
  pinned buffer is not given back either; memory that is lost this way is not modelled.)
* **An answer that waits uncounted** (no configuration; the history variable `wrapped`). `run` counts a request in
  `S.waiting` when it comes and when its slice is up, but not when it asks for the answer behind a thinking block
  that it cut off (`server.py:309`), which goes to the end of the same line. The dashboard
  shows the number; a slice ends by `waiters()` of the engine client, which counts it. `WaitingExact` leaves these out.
* **Experts of a fourth band** (`TwoStages.cfg` with `Bands <- MCFourBands`, `Experts = {0, 1, 2, 3}`, `WindowRows = 1`;
  `RowsAddTheirOwn`). A launch takes the hot region and three bands (`kMaxRegions`, `moe.h:105`); `moe_regions` cuts the rest without a
  word (`moe.cu:518`), while `load_cold` (`model.cpp:369`) takes as many as the file has and they count as
  resident. An entry of such an expert finds no region and nobody writes its part: the row adds what an earlier layer or window left there.
  `moe.h:98` says that "each block picks its entry's region by slot", `moe.h:110` that the regions are made "from a layer's
  hot descriptor and its cold ones". The bands the tools write are two.
* **An expert added twice while the cache grows** (`VramCache_grow.cfg`, `MapsAgree`). `grow` fixes the
  experts to add before it maps their memory (`expert_cache.cpp:710`); if mapping makes room by
  shrinking the cache, which other programs can cause, slots move under it.
* **A commit ahead of the peer's** (`TensorPair.cfg`, `PeersCommitFirst`). An eager forward waits
  for the commits of both ranks; a graph over both devices is launched on rank 0's stream, and
  nothing orders its part on the peer after the peer's commit (`fwd_launch`, `commit_here` of
  `dense_engine.cpp`; `docs/DENSE.md` on overlapped commits).
* **A rewound ring** (`DsDecode_rewind.cfg`, `WindowRowsRight`). A snapshot of the DeepSeek engine
  holds the open group (`each_state`, `ds_engine.h:424`) but not the window rings, and `rollback`
  (`ds_engine.cpp:584`) restores only what it holds: after rewinding by more than a ring minus a
  window, rows of the abandoned text are attended to. `docs/PREFILL-SKIP-PLAN.md:25` calls every
  checkpoint exact; `ds_spark.cpp:184` handles its own ring.
* **Drafted windows in lanes** (`DsDecode_piped.cfg`, `CommitFindsWindow`). `wins_` and `d_par_` exist
  once per stage. When a lane commits, stage 0 has already run the other lane's windows, and
  `commit` (`ds_engine.cpp:1352`) does not find its own. `serve.cpp:577` forms lanes on two GPUs by
  default and promises each conversation the tokens it would have alone; `docs/DEEPSEEK-NEXT.md:253`
  says this engine's `forward_pipe` is untested.
* **A commit graph of another place** (`DsDecode_graphs.cfg`, `CommitFindsWindow`). The graph's key
  (`ds_engine.cpp:1383`) is lane, first row and count; the place in the batch, baked into it as
  `&d_par_[wi]`, is not in it. With three conversations a graph is found that was captured for
  another place with the same rows.

The passing runs are about the system without these, or say what remains with them: `serve` has the memory for every
conversation and excepts the undrained request, `vram` lets no program allocate while the cache grows, `ds_decode`
rewinds within the ring, drafts outside lanes, batches two conversations and does not ask whether a commit finds its window;
`tensor_pair` does not ask for the peer's states with graphs; in `lookahead` the drafter fails where the code's does and a round after an
unsettled window fails, in `parking` a parking may throw, in `two_stages` an expert of a band past the third would add `Old`: these
are part of the behaviour, and the properties hold of all the rest.


## 7. What is not modelled

PROJECT.json lists every component with its status. In short:

* *Numerics* (matrix products, drafter networks, dense attention and recurrent layers, vision):
  data-parallel floating point. The models keep what they read and when, not what they compute.
* *Text* (tokenizers, templates, parsers, JSON, HTTP): conversions without protocol state.
* *Loading* (model files, pinned memory): sequential reads at start.
* *Display and tools* (dashboard, telemetry, console, benchmarks) and *vendored code*.

Together these are most of the repository's lines; they are why the mapped share stays well below
half although the control of every engine and of both servers is modelled.

Inside the modelled components:

* Exchange: `plan_swaps`' scores (any admissible candidate may be picked); shutdown of the helper.
* Server loop: the choice among free slots; the engine behind it (its lookahead is a round that
  may leave a window half done; what that window is, is `Lookahead`'s subject, and its failure any failing round); priorities of
  telemetry lines. `reset`'s branch that puts a request back into the queue is never reached, as
  the worker takes a reset only with nothing in flight.
* Client: `stop`, `cancel`, timings other than "a wait ended by its timeout".
* Request: `S.active` (only the dashboard reads it); what parser and guard make of tokens is any
  outcome they may have. The outcome "yield" or "loop" kept after a `done` that crossed the cancel
  may reopen an answer the engine had finished; this only costs a request and is in the model.
* Lookahead: failures inside a round other than the drafter's and those of `fwd_prepare`; snapshots other than at a prompt's
  end; more than one conversation (`ServeLoop` drains before it batches: `EngineShared`).
* Two stages: the graph cache, the choice of chunk layouts, images, a single stage, errors of
  decoding forwards; which experts are missing is fixed per layer; rounds between chunks run the
  other slot only. The buffers of `engine/prefill.cpp` that stream experts by layer parity are not
  modelled (`PromptWaves` is the DeepSeek engine's, which differs).
* Parking: conversations whose last window is unsettled (section 6); memory a failed parking does not give back; the pool of spare pinned buffers, the drafter's cell, images, evictions for prompt buffers.
* VRAM: the cold bands, `reserve_spare`, decay and files of the counts; the budget's slack is zero.
* Tensor pair: peer access and pinned copies are one buffer; every layer has a recurrent state; the
  engine's own `forward_pipe`, snapshots, rollback and drafters are left out (each synchronises).
* DeepSeek: one layer per kind stands for all; a prompt is read in one step (a group's read is
  `PromptWaves`, the overlap of stages like `TwoStages`'); skipped groups, the Engram gather and the
  context's mapping are left out; a forward that fails is `Reset`. DSpark's own ring, one per stage
  and not per conversation, only affects how good its drafts are.
* Sampler: penalties (they have no GPU path), the random numbers, rounding; negative zero, which
  `order_key` puts below zero while the host calls them equal.
* Sparse attention: the products, rotary positions, the tiling inside a tensor-core product.
* Routed experts: the kernels for lists of prompt rows, `repack`; `BNK_MOE_LPR`, which fixes the lanes as `BNK_EXACT` does,
  at another number; 128 bands and more, which a band's number (`cold_of`, an `int8_t`) has no room for.
* Prompt waves: experts in VRAM; the cost model is any split; a wave's copies are one operation; the
  lists a guess or a ranking may be stand for all of their length by renaming experts.


## 8. Plan

Done, the most central first: the exchange (whose failure serves wrong weights), the pool under it,
the CPU experts on the pool, the server loop, the client, lookahead decoding; then the composed
pool, parking, memory, the two stages, the request driver, tensor parallel, the DeepSeek
engine's decode windows and prompt experts, and the sampler, sparse attention and routed experts.

Proved: the safety of the exchange, the pool alone and under the CPU experts, the server loop, the
client, the request driver, conversation parking, lookahead decoding with its refinement, the
verification of drafts, the selection of the largest, the distributions from it, the two stages, the sparse attention's
stores, scores, selection and reads, and the sums of the routed experts.

What would be worth proving next, and what stands in the way:

1. `VramCache`: `MapsAgree`, after slots and regions are written without the folds that order them;
   `BudgetHonest` sums granules over layers, for which a lemma on the fold would have to be assumed.
2. `TensorPair`: `RanksAgree`, from which exchange buffer each rank reads in each layer, with the
   streams' waits stated without a fold over their queues.
3. `PromptWaves`: `SumsRight`, from what each buffer holds between its events.
4. `DsDecode`: `StateRight` of the ring and the groups, after the commit graphs' key names the place.
