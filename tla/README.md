# A TLA+ model of Mosaic's diffusion serving

Mosaic is a fork of vLLM that serves diffusion language models (LLaDA, Dream,
LLaDA-MoE). A request's answer starts as a run of mask tokens that are replaced,
a few per step, block by block. The fork adds two things to vLLM: an engine loop
that schedules single denoising steps, and a memory planner that lays out the
activations of a layer in one buffer. This directory models both, and the
processes of vLLM they run in: front-end, engine, executor, workers, the queue
between them, and data-parallel engines. TLC checks the models and TLAPS the
proofs of the central properties.

## The system

| Part | Source (under `src/`) | Module |
| --- | --- | --- |
| front-end: submit, cancel, deliver | `vllm/v1/engine/async_llm.py`, `output_processor.py`, `core_client.py` | `DiffusionServing` |
| engine process: main loop, step, death | `vllm/v1/engine/core.py` | `DiffusionServing`, `EngineFailures` |
| iteration-level scheduler | `vllm/v1/diffusion/scheduler.py` | `DiffusionScheduler` |
| one denoising step | `vllm/v1/worker/gpu_model_runner.py`, `execute_diffusion_once` | `DiffusionStep` |
| what the engine promises | (abstract) | `FifoServer` |
| client of the engine process | `vllm/v1/engine/core_client.py`, `async_llm.py` | `EngineClient` |
| workers and their executor | `vllm/v1/executor/multiproc_executor.py` | `MultiprocExecutor` |
| client, engine, executor and workers together | `core.py` and the above | `EngineFailures` |
| message queue between processes | `vllm/distributed/device_communicators/shm_broadcast.py` | `MessageQueue` |
| what that queue promises | (abstract) | `BroadcastQueue` |
| data-parallel engines and coordinator | `core.py`, `coordinator.py`, `core_client.py` | `DPWaves` |
| first-fit memory planner | `vllm/v1/worker/graph_builder.py`, `MemoryAnalyzer` | `MemoryPlan` |
| graphs of a layer | `graph_builder.py`, `define_..._block_graph` | `BlockGraphs` |
| forward passes of the models | `vllm_add_llada/`, `vllm_add_dream/`, `vllm_add_llada_moe/` | `LayerForward` |
| search for a chunk configuration | `diffusion_tools/online_searcher.py` | `OnlineSearcher` |
| activation pool | `vllm/v1/worker/activation_memory_pool.py` and its use in the models | `ActivationPool` |
| CUDA virtual memory allocator | `vmm_allocator/vmm_allocator.cpp` | `VMMAllocator` |

A request travels from `AsyncLLM.add_request` through a ZeroMQ socket and the
engine's input queue to the scheduler's `waiting` queue, is moved to `running`,
takes denoising steps, and its text travels back through the output queue to the
output handler of the front-end. Inside a step the model asks the planner for the
layout of a layer, the search for a layout that fits, and the pool for a buffer
of that size, which the allocator backs with physical memory on demand.

`MCServing`, `MCPlan`, `MCSearch` and `MCPool` give the constants of the runs
their values. `MCServing` also has a start in which one request is sent and two
callers stay silent, `MCPlan` puts the forward pass and the chunk search behind the
planner, and `MCPool` adds to the pool a program that calls the allocator in any
order. `EngineFailures`, `MessageQueue` and `DPWaves` need no such module.

### Serving

`DiffusionScheduler` has the scheduler's four fields as variables and its methods
as operators. `DiffusionServing` adds the queues, the state of the front-ends and
the program counter of the engine's main thread (`input`: draining the input
queue, `step`: inside `step()`, `dead`). One action is one atomic piece of a
thread:

| Action | Code |
| --- | --- |
| `Submit`, `Cancel` | `AsyncLLM.add_request`, `AsyncLLM.abort` |
| `ProcessOutput` | one message in `output_handler`: `process_outputs`, or `propagate_error` on ENGINE_CORE_DEAD |
| `HandleAdd`, `HandleAbort` | `_handle_client_request` on ADD and ABORT |
| `BeginStep` | leaving `_process_input_queue` with work to do |
| `Migrate`, `MigrateRaises` | an iteration of `_ensure_running_capacity` |
| `Step`, `StepRaises` | `schedule_step`, the runner, `apply_updates_and_collect_finished`, sending |

The network is external. A step may put any token of `Vocab` at a selected
position, and the confidences may rank positions in any order, so the top-k
choice is any set of the right size. `Vocab` may contain the mask token, because
nothing in the code stops the network from sampling it. The I/O threads forward
messages in order, so a socket and the queue behind it are one FIFO. Request ids
are fresh, as `api_server.py` makes them with `random_uuid`. Temperature and the
remasking strategies only influence which tokens are chosen and are part of the
same choice. `schedule_step` cannot return None when it is called, since there is
work.

A step raises if the runner rejects a parameter of any request in the batch
(`RunnerAccepts`), if no output token of the first request is masked
(`OutputMasks`; the logits tensor then has no place in the plan), or for
reasons outside the model (`ForwardMayRaise`, `ForwardMayFail`). `PoolChoice` says
whether the activation pool was initialised, which decides how many requests
are moved to `running`.

### Processes and their failures

`DiffusionServing` has one engine process that dies only in a step.
`EngineFailures` abstracts the text away and looks at everything that may die or
be told to stop. It composes two modules:

- `MultiprocExecutor`: the main thread of the engine inside the executor (spawning
  the workers, waiting for their READY on the start-up pipes and on the queues,
  `collective_rpc`: enqueue, then wait for each answer, with or without a timeout),
  the worker processes (initialisation that synchronises all of them, then a loop
  of dequeue, run, answer), the monitor thread that notices a dead worker, the
  failure callback, and shutdown. The queues are those of `BroadcastQueue` with a
  capacity.
- `EngineClient`: calls of `generate` and of utility methods with their futures, the
  task that reads the output socket, the output handler, the thread that watches
  the engine process, and shutdown. An action of the event loop goes to the next
  suspension; the watching thread interleaves anywhere.

`EngineFailures` adds the engine's main loop, which takes messages from the client
and calls the executor (`Boot`, `HandleAdd`, `HandleUtility`, `HandleFailed`,
`StepInline`, ...), and the faults: a worker dies (`Crash`), SIGTERM and SIGKILL of
the engine (`Sigterm`, `Sigkill`), and the client shuts down at any time
(`ShutdownClient`, `JoinTimesOut`). Both executors are covered: with `uniproc` the
worker is an object of the engine process; otherwise a diffusion step raises
(`StepDiffusion`, see below), and calls of the workers come from start-up and from
utilities.

`MessageQueue` is the queue itself, byte by byte: the ring in shared memory has no
lock, and every load or store of a flag is a step of its own. Messages that do not
fit in a block, and all messages for remote readers, travel over a publish socket,
which loses what is sent before a subscription and drops what exceeds its
high-water mark. A reader may give up at every wait if it uses timeouts. Loads and
stores are sequentially consistent, which is what the code relies on.

`DPWaves` has the engines of a data-parallel deployment, which must all step
together because they share experts. A request to paused engines starts a wave,
and an all-reduce every 32 steps ends it. Engines, coordinator and front-ends each
keep a wave number and hear of changes late, over separate FIFO channels. The
variable `diffusion_mode` is fixed for a behaviour: `core.py:93` sets it to True,
and False is the code as inherited.

### Memory

`MemoryPlan` walks through a graph the way `_generate_optimized_reuse_plan` does:
`k` is the node being placed, `offset` the placements so far, and `scanned` and
`last_end` the position of the first-fit loop. A node is placed in a gap, behind
the last block, at the offset of its alias, or not at all if it is empty.
`BlockGraphs` builds the graphs of the three models with their real dimensions.
`OnlineSearcher` plans, compares with the pool, cuts the bottleneck into one more
chunk and plans again. Chunk counts above the number of rows change nothing, so
the model caps them there (`OneMore`) where the code counts on.

`VMMAllocator` models the driver as page sets: which are mapped, which are
accessible, and how many physical pages are held. Each driver call may fail.
`ActivationPool` grows the mapped prefix in chunks. When the pool raises, the
models get no tensors and the forward pass raises in turn, although a comment
speaks of falling back to ordinary allocation; the pool may be asked again by the
next forward pass.

`LayerForward` runs a whole forward pass in the memory so planned: the kernels that
the layers and the model launch, in their order, with the tensors and rows that
each reads and writes, the chunk loops of MLP and logits with their shorter last
chunk, and two layers in sequence that share the buffer. The data is symbolic: a
row holds a term that says of which tensor, layer, version and token it is, and a
row that was overwritten through another tensor holds `Junk`, as does everything
computed from it.

Definitions commented as a *faulty variant* are not part of any specification.
Each is a plausible mistake in the definition that follows it or is named after
it, and replacing the definition by it makes TLC find the corresponding property
violated. They show that the properties have teeth.

## What TLC checks

| Run | Instance | Properties |
| --- | --- | --- |
| `serving` | three requests, batch of two, every order of submit and cancel, the forward pass may fail; or one request, every split of up to four tokens into blocks and of up to eight steps, masks in the prompt | `TypeOK`, `Conservation`, `ServesInOrder`, `BlocksInOrder`, `BlocksComplete`, `DeliveredIsComplete`, `RevealedIsFinal` |
| `serving_faults` | two requests, good and bad parameters, with and without the pool, the network may sample the mask, a batch of two may make the forward pass fail | `WithinBudget`, `OnlyBadRequestsKill`, `EveryRequestAnswered` |
| `engine_failures` | one request, one utility call, two workers or none, one of which may die | `AnswersMatch`, `FrontEndStopsWithEngine`, `CallsEnd`, `RequestsEnd`, `UtilitiesEnd`, `WorkerDeathEndsEngine`, `NoOrphans`, `StartUpEnds`, `ShutdownEnds` |
| `message_queue` | four messages, ring of two, a local reader without and one with timeouts, a remote one | `BlockIntact`, `NothingLost`, `SocketBounded`, `RemoteInOrder`, `IsBroadcastQueue` |
| `dp_waves` | two engines, one front-end, two requests, both modes | `SameWave`, `Behind`, `WavesAdvance`, `RequestsFinish` |
| `memory` | all graphs of five small tensors; the layers of the three models, chunked and not; forward passes of the three models over two layers; chunk searches for texts long enough for the attention part to become the bottleneck | `PlanTypeOK`, `LiveDisjoint`, `SharesOnlyInPlace`, `ViewsAligned`, `PeakFits`, `ForwardRight`, `RaiseIsJustified`, `SearchEnds` |
| `pool` | demands below, at and above chunk, page and pool boundaries; any sequence of allocator calls | `BufferBacked`, `NeverRejected`, `HeldIsMapped`, `AccessibleIsPrefix` |

`Conservation` says where a request is: one whose caller waits or was answered is
in exactly one of the input queue, `waiting`, `running` and the outputs, and what is
there was sent. Of a request that was cancelled it only asks that it is nowhere
twice; what should become of it is `AbortedLeave`, which the code violates (see
below).

`ServesInOrder` is a refinement: `DiffusionServing` implements `FifoServer` with
`running \o waiting` as its queue. It holds because the runner updates only the
first request of a batch. Batches of several requests are formed, but the
requests behind the first do not advance, so the engine is a serial server.

Such a batch is also a risk. The forward pass receives the tokens of all its
requests, but the models size their tensors for the lengths of the first one
(`llada_model.py:445`). What it then computes is undefined, so `StepRaises` may
happen whenever a batch has more than one request (`ForwardMayRaise`), and
otherwise the tokens are arbitrary. `OnlyBadRequestsKill` says what is left:
well-formed requests that are served one at a time do not bring the engine down.

`IsBroadcastQueue` is the second refinement: to the readers that use no timeout,
ring and socket together are a `BroadcastQueue`, liveness included. The executor
module builds on that abstract queue. A reader that timed out on the socket has
already passed the ring's block, so its ring and socket are out of step; what
still holds for it is `NothingLost`.

The liveness properties of `engine_failures` say what ends and name, in the formula,
what does not. `Hung` is a call without a timeout that waits for the answer of a dead
worker, or for room in the queue of one. `LostInHandshake` is a worker that dies
between its READY on the pipe and its READY on the queue, when the monitor does not
run yet. `UtilitiesEnd` leaves out the calls that are outstanding when the engine
dies: nobody completes their futures. `RequestsEnd` leaves out the calls that are
open when the client itself shuts down, and `NoOrphans` forked workers. Everything
else ends: `generate` calls, workers, the start-up, the client's shutdown.

`ForwardRight` is about the composition of planner, graph and models: the order of
kernels in the models must match the lifetimes that the graph declares, and the
barriers must keep alive what the chunk loop reads again.

**Fairness.**

| Property | Assumed |
| --- | --- |
| `EveryRequestAnswered` | the engine's main thread and each front-end's output handler keep running; both are loops that go on whenever there is something to do |
| `SearchEnds` | the search loop keeps running |
| `engine_failures` | the threads of the engine, each worker, the event loop and the client's watching thread keep running; a method of the workers ends while all of them live, since it may synchronise with the others |
| `IsBroadcastQueue` | writer and readers go on with the call they are in, and readers call `dequeue` in a loop |
| `RequestsFinish` | the processes do not all stop while one of them has something to do; the bounds make behaviours finite, so this implies the fairness of each |

Clients, callers and signals are under no obligation: nobody has to submit, cancel,
enqueue, time out, kill or die.

**Bounds.** Three requests and batches of two reach a full batch with one request
left waiting, which is the only case in which `running` and `waiting` are both
non-empty between steps. Four tokens give one to four blocks, blocks with and
without a remainder over the steps, and more steps than tokens. Five tensors are
enough for a gap between two live blocks that is too small, just large enough and
larger. The layer graphs use small token counts with real dimensions; offsets
scale with the token count except for rounding, which the odd counts exercise.
Forward passes take one prompt and one output token or two and three, with every
set of masks, and up to three chunks, so that there are whole, short and empty last
chunks; a second layer is where memory of the first is met again. The pool sizes
lie on and off multiples of the chunk (5) and page (2) sizes.
In `serving` and `serving_faults` the vocabulary has two tokens, elsewhere
one; the control flow only distinguishes the mask from other tokens. `serving` is
checked up to permutations of request ids and of tokens: the specification uses
neither otherwise than by comparing them, and all properties of the run are safety
properties.

Two workers with queues of one message reach every relation between a living and a
dead worker, a full queue, and an answer left over from an earlier call. Two calls
are needed for the latter and `MaxCalls` is 2. `fork` is FALSE, the start
method that the code forces once CUDA is initialised. The default is fork, which
matters only for workers that outlive the engine process; see below. Four messages
wrap a ring of two twice. `SyncPeriod` is 2 in place of 32, and requests take two
steps, so that requests end before, at and after an all-reduce;
with two requests one is sent in a later wave than the other, or late in the same
one.

The runs `engine_failures`, `dp_waves` and `pool` do not check deadlock: processes
end, requests are bounded in number, and a program may stop calling.

## Where the code does something else

Five runs are expected to fail; each checks a sentence of the code's own
comments.

- `outputs_to_sender`: `client_index` is documented as the way outputs return to
  the front-end that sent the request. `step()` files all outputs under front-end
  0. The request's own front-end waits for ever, which is why the passing runs
  have a single front-end.
- `search_short`: the chunk search is documented to repeat until the plan fits or
  cannot be improved. With few tokens one row of logits or of the MLP outweighs
  the attention part, and when the pool is small the loop never ends.
- `search_tight`: the chunk search is documented to raise "when the fixed part is the
  bottleneck and cannot be improved by chunking" (`online_searcher.py:93`). For Dream
  it also raises where one more cut of the logits would fit. The parts are compared
  by their peaks in the timeline, and the peak of the logits is their own size, but
  the plan puts them behind the layer's output. With P = 112, O = 8 and 3211264
  bytes beyond the margin the attention part fits exactly, the logits are at most as
  large as its peak, and the plan is 24576 bytes too large; with the logits in two
  chunks it would need 3211264 bytes. The run checks `RaiseIsJustified`, which holds
  in `memory` for the other calls. LLaDA and LLaDA-MoE, whose keys are as wide as
  the hidden state, never do this (`SearchRaises`).
- `aborts`: `abort_requests` (`core.py:318`) says it aborts requests from the
  scheduler. In diffusion mode it tells the token-generation scheduler, which does
  not hold them, and an aborted request is computed to the end, ahead of those
  behind it. `AbortedLeave` says that a request whose ABORT has been handled is
  neither in `waiting` nor in `running`.
- `dp_diffusion`: the all-reduce is to determine whether any engine has unfinished
  requests. The engines report the token-generation scheduler, which is empty in
  diffusion mode, so a wave ends while diffusion requests run. The engine that has
  one steps on by itself and, at its next all-reduce, waits for partners that are
  paused. `RequestsFinish` names this (`Alone`) as the only way in which a request
  does not finish; without diffusion mode there is none.

Modelling also met these, which are in the model but have no run of their own:

- `finished_req_ids` and `states` are never cleared; without an initialised pool the
  migration loop pops an empty queue (`MigrateRaises`); a batch advances only its
  first request.
- `MultiprocExecutor.execute_diffusion_once` asks a process handle for a method it does
  not have, so with several GPUs the first diffusion step ends the engine.
- A call that timed out or failed leaves answers in the queues, and the next call
  takes them for its own; `AnswersMatch` holds until then (`clean`).
- A forked worker inherits the write end of the pipe by which it is to learn of the
  engine's death (`multiproc_executor.py:464`), so it never sees the end of file and
  survives an engine that was killed. `NoOrphans` is about spawned workers.
- If the caller of a utility is cancelled, the answer raises in the output task
  (`core_client.py:557`) and the front-end fails for all requests.
- A SIGTERM during a utility call is caught as a failure of that call, and later ones
  are ignored (`core.py:779`, `core.py:874`); the client's kill ends the process.
- `AsyncLLM.shutdown` leaves open `generate` calls waiting (`async_llm.py:222`).
- The pool's fall-back to ordinary allocation does not exist: the caller indexes None.
- `unmap_physical` leaves `mapped_size`, so mapping the range again does nothing, and
  `free` releases no physical memory, because the handles are not kept. After a
  failed `cuMemSetAccess` each retry leaks a handle.

## What is proved

TLC checks small instances. The theorems hold for every value of the constants
that satisfies the named assumptions: any number of requests, clients,
vocabularies and batch sizes; any set of graphs whose nodes read earlier nodes
only; any number of engines, workers, readers and blocks; any sizes of pool, chunk
and page.

| Theorem | Module | Statement |
| --- | --- | --- |
| `TypeCorrect` | `DiffusionServingProofs` | `Spec => []TypeOK` |
| `Conserved` | `DiffusionServingProofs` | `Spec => []Conservation` |
| `Fifo` | `DiffusionServingProofs` | `Spec => ServesInOrder` |
| `Final` | `DiffusionServingProofs` | `Spec => RevealedIsFinal` |
| `InOrder` | `DiffusionServingProofs` | `Spec => []BlocksInOrder` |
| `Quotas` | `DiffusionServingProofs` | `Spec => []BlocksComplete` |
| `Budget` | `DiffusionServingProofs` | `Spec => []WithinBudget` |
| `Delivered` | `DiffusionServingProofs` | `Spec => []DeliveredIsComplete` |
| `KilledByBad` | `DiffusionServingProofs` | `Spec => []OnlyBadRequestsKill` |
| `OwnAnswers` | `EngineFailuresProofs` | `Spec => []AnswersMatch` |
| `HandlerEnds` | `EngineFailuresProofs` | `Spec => []FrontEndStopsWithEngine` |
| `Intact` | `MessageQueueProofs` | `Spec => []BlockIntact` |
| `RemoteOrder` | `MessageQueueProofs` | `Spec => []RemoteInOrder` |
| `Bounded` | `MessageSocketProofs` | `Spec => []SocketBounded` |
| `Lossless` | `MessageSocketProofs` | with roomy sockets, `Spec => []NothingLost` |
| `Broadcast` | `MessageSocketProofs` | with `SendHWM > max_chunks`, the safety part of `IsBroadcastQueue` |
| `OneWave` | `DPWavesProofs` | `Spec => []SameWave` |
| `CoordinatorBehind` | `DPWavesProofs` | `Spec => []Behind` |
| `NeverBack` | `DPWavesProofs` | `Spec => WavesAdvance` |
| `PlanTypeCorrect` | `MemoryPlanProofs` | `Spec => []PlanTypeOK` |
| `PlanSafe` | `MemoryPlanProofs` | `Spec => []LiveDisjoint` |
| `PlanAligned` | `MemoryPlanProofs` | `Spec => []ViewsAligned` |
| `PlanFirstFit` | `MemoryPlanProofs` | `Spec => []LowestFit` |
| `PlanInPlace` | `MemoryPlanProofs` | for block graphs, `Spec => []SharesOnlyInPlace` |
| `PlanPeak` | `MemoryPlanProofs` | for block graphs and graphs without aliases, `Spec => []PeakFits` |
| `SearchRaises` | `OnlineSearcherProofs` | without calls for Dream, `SearchSpec => []RaiseIsJustified` |
| `SearchPlans` | `OnlineSearcherProofs` | `SearchSpec => [](SharesOnlyInPlace /\ PeakFits /\ ~failed)` |
| `Prefix` | `PoolProofs` | `MCSpec => []AccessibleIsPrefix` |
| `Backed` | `PoolProofs` | `MCSpec => []BufferBacked` |
| `NotRejected` | `PoolProofs` | `MCSpec => []NeverRejected` |
| `HeldMapped` | `PoolProofs` | `MCSpec => []HeldIsMapped` |

**Serving.**

- `TypeOK` is inductive. Its content is in the runtime states: a text always has
  `prompt_len + gen_length` tokens, so every step must preserve its length.
- `Conserved` comes from `AllKept`, which is inductive given `TypeOK`: the model, like
  the code, keeps cancelled requests too. The proof follows the concatenation
  of the outputs, `running` and `waiting`: a migration leaves it unchanged, an
  accepted request extends it, and a finished one moves from `running` to the
  outputs.
- `Fifo` needs that the first entry of `running` has a state, which is part of
  `AllKept`; hence the head of the batch is position 1, removing it is taking
  the tail, and the step maps to `Serve`.
- `Final` needs `AllKept` because `HandleAdd` and the migration write into
  `states`: the id must not have a state yet, or must keep it.
- `InOrder`, `Quotas` and `Budget` come from one invariant per runtime state,
  `TextInv`: nothing ahead of the current block is revealed; a request in the engine
  has steps left and a mask in its output, one that left is finished; and, if the
  network does not sample the mask, the masks of the current block are those the
  quotas of the remaining steps will reveal. The last clause carries the arithmetic:
  the quotas of `s` steps add up to `s * (n \div steps)` and one more for each of the
  first `n % steps`, so the last step of a block leaves none.
- `Delivered` adds `DeliveryInv`: an output on its way to a front-end is the tail of a
  state that no later step changes, since its request is no longer in `running`.
- `KilledByBad` uses that a head request always has a masked output token
  (`TextInv`), which leaves only the runner's parameter checks as a reason to raise.

**Processes.**

- `OwnAnswers`: `ExecInv` places each worker whose answer is awaited at exactly one
  point of the present call (its message is queued, it runs, its answer is queued,
  or it died on the way) and leaves nothing of an earlier call in any queue. It
  speaks of `clean` executions only; a timeout is what breaks it.
- `HandlerEnds`: `ClientInv` traces each error in the client's queue to its cause: a
  DEAD message, a reader task that ended with the engine, or the answer to a
  cancelled utility call.
- `Intact`: `RingInv` says for every message number in the window of `max_chunks`
  behind the writer that its block is published, holds it, and has exactly the
  reader bytes of those who passed it. Half-way facts make it inductive: what the
  writer has learnt while it sums the reader bytes, and why a reader that saw its
  byte 0 in an unpublished block cannot take the old message for a new one.
- `RemoteOrder` and `Bounded` rest on `SocketInv`: the numbers in a socket increase
  strictly, and those of a local reader lie between its place in the ring and the
  writer's. `Lossless` and `Broadcast` add `Complete`: a message that overflowed and
  was not passed yet is in the reader's socket.
  Their hypothesis is that the publish socket keeps more messages than the ring has
  blocks. The code leaves ZeroMQ's high-water mark of 1000 and uses a ring of 10.
  For readers with timeouts `Lossless` asks for room for all `MaxMsgs` messages:
  the ring does not bound the socket of a reader that gives up.
- `OneWave`, `CoordinatorBehind` and `NeverBack` share `WaveInv`, which bounds the wave
  numbers of all messages under way by the wave of engine 0. The proof must show
  that a request or a start message cannot name a wave the engines have not reached,
  and that the all-reduce moves all engines at once.

**Memory.**

- `LiveDisjoint` is not inductive as it stands. `ScanInv` says what the first-fit
  loop has established half way: every scanned block ends at or before `last_end` and
  every live block not yet scanned starts at or after it, so a gap of the right size
  before the next block is free of all live blocks.
- `ViewsAligned` needs that `last_end` and all offsets are even. `last_end` is the
  end of a live block, and an odd-sized barrier is never read and so never live.
- `PlanFirstFit` says that a tensor would overlap a live one at any lower offset. It
  is what makes the layout of a layer predictable.
- `PlanInPlace` is about the one place where the plan is not disjoint by
  construction: the alias of the layer's output to its input, which is placed without
  a look at what is live. The hypothesis `IsBlockGraph` says that the graphs are
  those of `BlockGraphs`, for any model, number of tokens and chunks. Each is at least
  one: a request has tokens, and the search starts with one chunk and only adds.
  From `PlanFirstFit` follow the places that matter:
  `x` at 0, the residual stream above its end, the output of the MLP at 0 or above
  the end of `x`. So the output, when it takes the place of `x`, meets no live tensor
  but the MLP output, which has the same place and size and is read last by it.
- `PlanPeak` compares the buffer with `MemoryAt`, a sum over a set of tensors that
  the community module defines by a fold. `SumIsCount` shows that the fold counts the
  bytes of the tensors. It is an induction over sets, stated as the absence of a
  smallest counterexample (`WFMin` takes a set and no operator, so the provers can
  use it). `NeededApart` says that the tensors needed at one moment do not overlap,
  by `SafeInv`: an update in place is the last read of the tensor it replaces. So
  offset plus index maps their bytes one to one into the buffer (`NeededFits`), which
  therefore has no fewer (`FS_Injection`). `InBuffer` is the invariant that no tensor
  ends beyond `max_offset`.
- `SearchRaises` needs to know the layout of a whole layer, in bytes that depend on
  the model and the number of tokens. Let H be the size of a hidden state and V that
  of the keys (V = H except for Dream). When the search raises, the peaks of the MLP
  and of the logits are at most the peak of the fixed part, which is at most 3H + V
  (`FixedPeak`). An MLP that is not cut needs more than 4H (`WholePeak`), so it has
  been cut, its chunks together take at most V (`ChunkPeak`, `NoBottleneck`), and the
  logits take at most 3H + V. Lowest fits then leave no choice: the residual ends at
  4H, the chunks lie in the first H, the MLP output below it, the layer's output on
  `x`, the logits within 4H + V (`ChunkLayout`, `TailLayout`); and the keys or the
  values end at 5H or beyond when V = H (`KeysLayout`). So no tensor ends beyond the
  fixed part except Dream's logits (`FixedReaches`, `RaiseInv`), which is
  why the theorem assumes that no call is for Dream. The size of the plan is the end
  of some tensor (`TightInv`, which also says that an alias lies on its target), and
  it is above the limit when the search raises. `SearchInv` carries all of this
  through the loop: it joins the planner's invariants, that the graph is one of the
  call's model (`GraphOfSearch`), and that a search which has ended has a finished
  plan.
- `SearchPlans` follows from the same invariant. It removes the hypothesis on the
  graphs from `PlanInPlace` and `PlanPeak`: every graph the search builds meets it.
- `Prefix` holds for any program that calls the allocator, failed calls included;
  `VMMInv` adds that no page above `mapped_size` was ever unmapped. `PoolInv` relates
  the pool's fields to the allocator's: the buffer in use ends below
  `current_mapped_size`, that below `mapped_size`, and nothing was unmapped. The
  arithmetic is that of rounding: up to chunks, cut at the pool size, and up to pages
  stays within the reservation. `ProgramAssumption` says that sizes are naturals; in
  C++ they are `size_t`.

**Only model-checked.**

- Liveness: `EveryRequestAnswered`, `SearchEnds`, the seven temporal properties of
  `engine_failures`, `RequestsFinish`, and the liveness half of `IsBroadcastQueue`. The
  prover has no rules for fairness and ENABLED.
- `ForwardRight`: it follows all kernels of a layer on rows of symbolic values, with
  chunk loops whose kernel sequence is a concatenation over layers and chunks
  (`FlattenSeq`), so a proof would be an induction over that sequence.

## What is not modelled

- The numerical content of the networks and of the CUDA and Triton kernels.
- The token-generation scheduler with its KV cache: `core.py:93` switches diffusion
  mode on, and then it holds no request.
- The batch queue and non-blocking calls of pipeline parallelism, the Ray executor,
  elastic scaling of data-parallel engines, and the request counts for load
  balancing (which are always zero in diffusion mode).
- Weak memory: the message queue has no fences. Time: a negative remaining timeout
  that ZeroMQ takes for waiting without end (`shm_broadcast.py:524`).
- Finer steps: the all-reduce of the data-parallel engines is one step of all of
  them, as no engine goes on before the last has arrived, and a utility call of the
  in-process executor is one step, so a SIGTERM comes before or after it. With worker
  processes it may come in the middle.
- The dense layers and the shared expert of LLaDA-MoE in `LayerForward`.
- Reuse of a request id after an abort: ids are fresh in the API server. Mask ids
  that differ between a request and the constant in `dream_model.py:248`.
- Parallel sampling (`n > 1`), detokenization, statistics and the HTTP layer.
- The unused alternatives: `execute_diffusion`, `schedule()`, other planners, the
  token-count admission control that is commented out.

What is left is numerical, unreachable in diffusion mode, or needs real time or a
hardware memory model.

## Plan

1. Proofs: the rows of a single layer that `ForwardRight` relies on, from the places
   that `PlanInPlace` establishes.
2. Proofs: that the allocator's `held` never exceeds the device, and the lemmas about
   `BroadcastQueue` that `MultiprocExecutor` builds on.
