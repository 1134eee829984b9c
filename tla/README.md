# A verification project for ort-superserve

ort-superserve is a Rust library that serves one ONNX model to many concurrent
callers: calls of `Server::infer` are collected into batches, preprocessed, run
through one of several ONNX sessions, postprocessed, and answered one by one.
This directory holds TLA+ modules that model the server, its start, the tensors of
its batches and the programs of its examples, TLC configurations that check them on
small instances, and proofs, checked by TLAPS, of what holds for every
configuration. Paths below are relative to the repository.

## 1. Inventory

### Components

| Component | Source | State it keeps | Operations |
|---|---|---|---|
| Server handle, `infer()` | `src/server.rs:58-72, 249-274` | a `command_tx`; per call a oneshot and the position in `infer()` | clone, shutdown (drop), infer: preprocess, send, await the answer; a caller may drop the future |
| Batcher task | `src/actor/batcher.rs` | `batch_buffer`, `responders`, two `JoinSet`s, `results` by index, `dispatch_index`, where the task is suspended | collect until full, timeout or closed; refuse; preprocess; filter; batch; dispatch; await; compare counts; postprocess |
| Session threads | `src/actor/worker.rs` | an ONNX session, the message in work | build with retry, receive, `process_message` with five error returns, stop |
| Channels | `kanal`, `tokio::sync::oneshot`, as used by the three above | queued commands and messages, live senders and receivers, the content of every oneshot | send, receive, close by dropping |
| Startup | `src/server.rs:90-187` | a temporary file, a probe session | `from_file`, `from_url` |
| Session builder | `src/session/builder.rs` | none | acceptance and registration of execution providers, loading of the file |
| Configuration | `src/config.rs`, `examples/` | plain fields | defaults, builder methods |
| User traits | `src/traits.rs` | none | `preprocess`, `batch`, `postprocess`: succeed, fail or panic |
| Tensors | `src/helpers.rs`, `src/actor/worker.rs:141-165` | none | stacking items, slicing axis 0 |
| Axum example | `examples/axum_server.rs` | where `main()` is, the handlers in flight | bind, accept, read the body, reject, infer, respond or panic, a signal, graceful shutdown |
| Audio example | `examples/audio_processing.rs` | none | read samples, mix down, resample, cut or pad |
| Image example | `examples/image_processing.rs` | none | resize, normalise, the best class of the output |
| Person detection | `examples/person_detection.rs` | the vector of detections of a `postprocess()` | confidence threshold, suppression of overlapping boxes |
| Error type | `src/error.rs` | none | never constructed |
| Actix batching server | `benchmarks/servers/actix-with-batching-server/` | a batch of rows and one of senders, armed timers, actor mailboxes | HTTP handler, collect, flush when full or by timer, infer and slice |
| Other benchmarks | `benchmarks/` | counters of the load client | HTTP servers over one call, a load client, scripts |
| Tests | `tests/` | none | use the crate |

### How they interact

`Server::start` creates one unbounded command channel, one unbounded channel per
session, `num_sessions` threads and one batcher task, and returns a handle.

    infer()  --Command{input, responder}-->  batcher  --WorkerMessage{batch, result_tx}-->  session
       ^                                     |    ^                                            |
       +----------- responder (oneshot) -----+    +--------------- result_tx (oneshot) --------+

There is no shared memory besides the channels, no lock and nothing persisted.
Ends of channels are closed only by being dropped: by `shutdown()` or the drop of a
handle, by a task that returns, by a panic that unwinds.

### What is hard

* Several callers, one batcher task, many small tasks in two `JoinSet`s and the
  session threads run interleaved; the tasks of a `JoinSet` end in any order.
* A batch is filtered after preprocessing, stacked, sliced and zipped again. Items
  and responders are matched by position only.
* Any part may fail alone: one input, one row, `I::batch`, a session, a session
  thread, the batcher. Every early `continue` must answer every remaining caller.
* `recv()` races a timer in `select!`; senders disappear while a batch is collected.
* `infer()` may be dropped at any await; with `preprocess_on_infer` this happens
  before anything is queued.
* The batcher waits without a timeout for a session, and a session builds without end.
* A list of providers is accepted or refused as a whole; what the probe session of the
  start has seen may be gone when the threads build theirs.
* Axis 0 is added and removed by index arithmetic in two files; resampling, suppression
  and classification have edges (empty, zero, equal, touching).
* A signal meets handlers that wait, that panic, and clients that stall in the middle of
  their body or hang up.
* Zero is a legal value of `num_sessions`, `max_batch_size` and `min_batch_size`; the
  dispatch counter wraps.

### What makes each component correct

* Callers: a call gets one answer, that of its own input; it returns; closing is
  decided by the last handle and by an empty queue.
* Batcher: order of arrival is kept; one batch at a time; rows and callers stay
  aligned; no caller of a batch is forgotten on any path; batches stay within limits.
* Sessions: one message in work, every message is resolved exactly once; all of them
  end after shutdown.
* Whole server: it implements a batching queue (`BatchService`); an error that blames
  the server appears only when that part of it failed.
* Startup and session builder: no thread is started for a configuration or a model that
  cannot be built; every server loads its own model; threads come up.
* Tensors and example types: with a model whose first axis is the batch, nobody can tell
  from an answer whom the batch put beside them; a batch breaks by shapes only; edges of
  the numbers do not panic and do not reorder.
* Axum example: a connected client is never cut off by the shutdown, a response is an
  output, and after a signal `main()` ends as soon as no client owes a body.
* Actix batcher: rows and senders stay aligned and in one batch each, however timers and
  full batches flush; every handler ends.

`PROJECT.json` lists the hazards one by one, each with its line and its properties.

## 2. Modules

| Module | What it is |
|---|---|
| `Channels` | constants, channel state, and the operators all parts share |
| `Callers` | `Server` handles and `infer()` calls |
| `WorkerPool` | the session threads |
| `Batcher` | the batcher task |
| `Superserve` | the composition, fairness, the properties, the refinement mapping |
| `BatchService` | what the server promises, without tasks, threads and channels |
| `DocumentedClaims` | a sentence of the documentation, stated as a property |
| `MCSuperserve` | model values for TLC |
| `Config`, `ExampleConfigs` | `ServerConfig`, its builder methods, and the configurations of `examples/` |
| `SessionBuilder` | which providers and files a session can be built from, and what it is built with |
| `Startup` | `from_file` and `from_url`, up to the threads' receive loops |
| `Tensors` | row-major tensors: `batch_array`, slicing |
| `AudioInput` | the audio example: samples, mix-down, resampling, fixed length |
| `PersonDetection` | the person example: boxes and suppression, tasks side by side |
| `Pipeline` | the data of one batch, from inputs to answers, over the three modules above |
| `AxumServer` | the axum example on top of an instance of `BatchService` |
| `ActixBatcher` | the batching server of the benchmarks, a system of its own |
| `MCStartup`, `MCPipeline`, `MCAxum`, `MCActix` | their model values |
| `SuperserveInv` | the inductive invariants of the server |
| `Indexes` | the order in which the `HashMap` of results is read |
| `DataLemmas` | lemmas about listing indexes, sizes of shapes, stacking and slicing |
| `SuperserveProofs`, `ServiceProofs` | proofs about the server, and that it implements `BatchService` |
| `ExampleProofs`, `PipelineProofs` | proofs about resampling and suppression, and about the path of a batch |
| `StartupProofs`, `AxumProofs`, `ActixProofs` | proofs about these three |

How they compose: `Superserve` extends `Callers`, `WorkerPool` and `Batcher`, which share
`Channels`; it instantiates `BatchService`, and so does `AxumServer`, as its server.
`Startup` extends `SessionBuilder`, which extends `Config`; `Pipeline` extends `AudioInput` and
`PersonDetection`, which extend `Tensors`. `Batcher` and `Pipeline` filter a batch by the same
operator, that of `Indexes`.

Definitions named *Slip...* in a comment are plausible mistakes; no specification uses
them. They document which property would notice the mistake.

### Correspondence with the code

*Requests.* A request is one call of `infer()` together with its input. A row of a
tensor is named by the request whose input it came from, so tensors are sequences of
requests, and a row in the wrong hands is visible. What user code computes is left out;
whether it succeeds, fails or panics is a set of inputs (`PreErr`, `PrePanic`,
`PostErr`, `PostPanic`).

*Batcher.* `phase` is where the task is suspended, or where user code can divert it:

| `phase` | lines of `src/actor/batcher.rs` |
|---|---|
| `recv` | 49, the outer `recv()` |
| `collect` | 58-66, the `select!` loop |
| `preprocess` | 128, `join_next()` of the preprocess tasks |
| `batch` | 179-205, from `I::batch` to the send |
| `await` | 214, the await of the result |
| `post` | 258, `join_next()` of the postprocess tasks |
| `unwinding`, `dead` | a panic on the way out, and after it |
| `exited` | 265 |

What happens between two phases is one action, guard by guard: `EndCollection` is lines
72-125 with the refusal, the split into raw and preprocessed inputs and the spawns;
`FinishPreprocess` is lines 143-176. `postprocess_tasks` and `preprocess_tasks` are the
running tasks of the `JoinSet`s; `JoinPreprocess(t)` and `Postprocess(t)` end one of
them, in any order. `batch_buffer`, `responders`, `results`, `preprocessed_items`,
`dispatch_index` are the variables of the code. The emptiness test at line 68 is never
true, as the first command is pushed unconditionally.

*Sessions.* `session[w]` is `init`, `sleeping` (lines 44-55), `idle` (61), `busy`
(`process_message`), `unwinding`, `dead`, or `exited` (65). `current[w]` is the message
in work. The returns of `process_message` are four: the outputs, one per row
(`ProcessOk`), another number of them (`ProcessOtherCount`), an error (`ProcessErr`), a
panic (`WorkerPanics`: line 143 indexes the shape of a scalar, and the runtime may panic).

*Callers.* `Infer` runs up to the first await, `PreprocessInInfer` from there to the
send, `Respond` takes the answer, `Cancel` drops the future. `infer(&self)` borrows its
handle, so `Shutdown` of a handle needs that no call through it is in flight.

*Channels.* `commands`/`senders`/`command_rx` is the command channel, `worker_queue`/
`worker_txs`/`worker_rx` are the session channels, `responder` has the content of every
caller's oneshot, `result` the oneshot of the latest batch with its identity `id`.

*Startup.* `pc[s]` is where a call is: `download` (`src/server.rs:145-156`, with the two
awaits), `write` (158), `probe` (163), `names` (166-182), `started` (187); `from_file` has
the last three (93, 96-112, 116). `job[s]` is the call's arguments: where from, what the
file is, and a `ServerConfig`. `thread[s][w]` are the threads of
`src/actor/worker.rs:40-55`, `session[s][w]` is what a thread has built: the file and the
providers it was registered with. A file is its owner and what it holds, so that a foreign
model is visible. A build succeeds only if every listed provider is accepted and the file
loads, and may always fail for a reason of the runtime's own. `SessionBuilder!Registered` is
what the `match` of `src/session/builder.rs:59-127` registers, which is less than what
was configured. `CleanTemp` is the operating system. A user's own file is not changed while
a call uses it. `Superserve` begins where `Startup` ends; the two meet in the states `init`
and `sleeping` of a thread, which both have.

*Pipeline.* One batch of `Superserve` with its data. `stage` is `preprocess`
(`src/actor/batcher.rs:112-141`), `run` (179-232), `post` (247-262). `item` has the results
of `preprocess()` by index, `batched` the tensor that went to the session, `slices` what came
back, `answer` what each caller gets. A tensor is a shape and a row-major sequence, as in
`ndarray`; `Stack` and `IndexAxis` do the index arithmetic of `src/helpers.rs:28-47` and
`src/actor/worker.rs:141-165`. The tasks of a batch end in any order, and the loop of `nms()`
in `examples/person_detection.rs` takes one box per step, so that several of them interleave.
The model is a member of a small set: some treat the first axis as the batch
(`BatchFirst`), one returns a scalar, one half of the rows, one the transposed tensor.

*Axum example.* `main` is `binding`, `serving`, `draining` (from the signal), `returned`;
`conn[r]` is the handler of one POST: `reading` while it awaits the body (line 59), `handling`
with it, `waiting` in `infer()`. `Read` is a step of the client. The `Server` is
`BatchService`, which `Superserve` is shown to implement; its steps happen only while `main()`
has not returned, because the batcher lives in its runtime. What `with_graceful_shutdown` does
is axum's: no new connections, and the return of `serve` when no handler is in flight.

*Actix batching server.* `Submit` to `Disconnect` are the HTTP handler, `Handle` and
`TimerFires` the two entries of the `BatcherActor` (each runs to its end, as an actor
does), `Infers`, `InferFails` and `OutputTooShort` the outcomes of `WorkerActor::handle`.
The oneshot of a request is `answer[r]`. `batch` and `result_txs` stay two sequences, as in
the code. `do_send` to a dead worker drops the message, and a message whose sender hung up
may be skipped: both are actix's, not this repository's. An output of rank one, whose first
"row" would be the whole output, is left out.

### Abstractions

* The answers that one loop sends to all callers of a batch are one step. A caller
  reads only its own oneshot, so nobody can see the difference except by the time.
* The timer is not a clock: `max_wait_time` may elapse at any moment of the collection.
* In the server modules tensors are sequences of names; shapes and data are in `Pipeline`.
  Names of tensors, logging and texts of errors are left out; errors are named after their text.
* Arithmetic is exact: samples are integers in units in which means and interpolations come
  out whole, coordinates are in half pixels, confidences in percent. So rounding and NaN are
  not covered. A picture is what it shows; resizing and pixel values are the `image` crate's.
* What a released handle was called may be reused by a later clone, except for the first
  handle. This bounds the number of clones alive, not their number.
* Two things about kanal cannot be read off the repository, and are constants.
  `DiscardOnClose`: whether messages queued for a receiver that dies are dropped with
  it. `CancelLoses`: whether a `recv()` that `select!` abandons can lose a command that
  was already handed to it. Runs cover both values of each.

## 3. Properties

Safety (all in `Superserve`):

* `TypeOK` - types, and that indexes stay indexes.
* `AnswerFitsInput` - an answer is that of the caller's own input, and an input that
  fails gets its own error, whatever its neighbours in the batch did.
* `NoCallerForgotten` - a responder is dropped unanswered only when the task that held it
  was lost; no error path of the batcher forgets a caller.
* `SingleFlight` - at most one batch is with the sessions, and it is that of the callers
  the batcher holds.
* `BatchWithinLimits` - a batch has between 1 and `max_batch_size` rows.
* `GracefulExit` - when the batcher has left its loop nothing that was accepted is
  unanswered.
* `ErrorsHaveCause` - an error that blames the server has its cause in the server.
* `OneBatchAtATime` - an action property: commands are taken in order, and not before the
  batch before is answered to the last caller.
* `ImplementsService` - every step is a step of `BatchService` or leaves it unchanged. The
  queue is the command channel; the batch is the set of calls whose responders the batcher
  or a postprocess task holds; it is sealed when the collection loop has ended.

In `Startup`: `OwnModel` (a session is built from the model of its own call),
`ThreadsCanHope` (threads exist only for what can be built), and the liveness property
`ThreadsComeUp` (a returned server gets all its sessions, unless its file is cleaned away).
Two are claims of the documentation that do not hold, see findings:
`AvailableProviderSuffices` and `OptionsReachTheRuntime`.

In `Pipeline` and the modules below it:

* `BatchingIsTransparent` - with a model whose first axis is the batch, an answer is what the
  same input gets in a batch of its own, unless the whole batch failed. It goes through
  every step from preprocessing to slicing and compares with a reference (`Alone`) that has no
  batch and no tasks, and says what suppression keeps (`IsBestFirst`) without its loop.
* `BatchBreaksByShapesOnly` - the whole batch fails in `batch_array` only if two callers
  asked for different shapes.
* `ResamplingKeepsOrder` - resampling keeps a rising recording rising, within its range.
* `OverlapIsOfAreas` - `compute_iou` compares the numbers of cells in both boxes and in
  any, also for boxes that are empty, touch or do not meet.
* `KeptApart`, `LostToBetter` - what suppression keeps does not overlap and is sorted, and a box
  is lost only to a kept one that is at least as good.

In `AxumServer`: `NobodyCutOff` (when `main()` returns, whoever still waits in the server
has hung up), `ResponsesFit` (a response for an output, a closed connection for an error),
and the liveness properties `EveryHandlerEnds` (a handler that has its body ends, also beside
clients that stall) and `SignalEndsMain` (after a signal, once no client owes a body, `main()`
returns).

In `ActixBatcher`: `LogitsAreOwn` (a handler gets its own row), `OneSenderEach` (an
unanswered sender is in exactly one batch), `DroppedByPanicOnly`, and the liveness property
`EveryHandlerEnds`.

Liveness of the server: `EveryCallReturns`, `ShutdownCompletes`, and `ImplementsFairService`.

### Fairness

`Fairness` in `Superserve` is weak fairness of each call's own steps, of the batcher and
of each session thread, and strong fairness of a session's successful build. The first
three say that tokio polls ready tasks, that the system schedules threads, and that user
code and the ONNX runtime return; nothing in the code waits on a condition that comes and
goes, so weak fairness is enough. The last one says that a build which is retried for ever
(`src/actor/worker.rs:44-55`) succeeds at last; without it a caller may wait for ever, and
that is what the code does. No fairness is given to making, dropping, cloning or shutting
down anything.

In `Startup` it is weak fairness of each call and each thread, and strong fairness of a
successful build, for the reason above.

In `AxumServer` it is weak fairness of each handler that has its body, of `main()`, and of the
two actions the fair `BatchService` is fair to; there is none of signals, of new requests, of
clients, be it that they hang up or that they deliver their bodies, and of the batcher's death.
The extractor at `examples/axum_server.rs:59` awaits the body without a timeout, so polling the
handler does not bring it; the two properties are about what does not depend on that.
`ImplementsFairService` is what justifies the fairness of the instance.

In `ActixBatcher` it is weak fairness of the two actors, of each armed timer and of each
waiting handler: actors take their messages, and `run_later` fires.

## 4. Runs

| Run | Instance | What it shows |
|---|---|---|
| `mixed` | 4 calls, 2 handles, batches up to 3, 2 sessions, one panic in preprocess, one failing postprocess | everybody gets the verdict of their own input, one batch at a time; the refinement |
| `faults` | 3 calls, 2 sessions, every fault | answers stay right and errors have causes; the refinement |
| `onInfer` | `preprocess_on_infer`, `min_batch_size` 2, 4 calls, a batcher and a session that may die, queues of the dead are kept | preprocessing in the callers, refused batches; nobody is answered wrongly even if calls hang |
| `noSessions` | `num_sessions` 0, 3 calls, receives that lose a command when they are abandoned | the batcher dies, and every caller still returns |
| `live` | 2 calls, 1 session; builds, the session, a postprocess task and the batcher may fail | calls return, shutdown completes, the refinement with fairness |
| `actix` | 4 requests, one bad image, batches of 2, failing and short inference | alignment, and an end for every handler, also when the worker dies |
| `startup` | 2 calls at once with any two of six kinds of arguments | only sound servers start, from their own model, and they come up |
| `pipeline` | 2797 batches of up to three inputs, seven kinds of models | the data of a batch |
| `axum` | 4 requests, one malformed, batches of 2, a batcher that may die, clients that stall or hang up | graceful shutdown |
| `parallel` | violation | see findings |
| `providers` | violation | see findings |
| `options` | violation | see findings |

*Bounds.* Four calls make a batch of three with a fourth waiting: enough for a hole at
each place of a batch (first, middle, last), for two holes, for a swap of two rows, and for
a batch that follows another. Two handles and two sessions are enough for a last and a
not-last sender and for a busy session beside an idle one. `IndexMod` stands for 2^64:
the runs use small values so that `dispatch_index` does wrap. The number of calls bounds
everything else (`result.id`, queues); no action has an artificial guard. In `axum` four
requests are a batch of two, one that waits behind it, and one that never reaches the server.
In `startup` two calls are enough for one to load what the other wrote. In `pipeline` a batch of
three has a middle; the audio inputs have rates below, at and above the target rate, a divisor
and a rate without one, and 0, with up to four samples, against a target length of 3, so that
recordings are cut, fit and are padded; scenes have boxes that overlap, touch, are empty, have
equal confidences, and chains whose ends overlap only the middle. The
theorems below take the bounds away from every invariant and action property of every run;
only the liveness properties rest on the instances.

Deadlock is checked in every run but `onInfer`. In `ActixBatcher` only `Quiet` and in
`Startup` only `Done` may stutter, as in `Pipeline` and `AxumServer`. In `Superserve`,
`Terminating` allows a stop only in `Stopped`, where all handles are gone, all tasks and
threads have ended, and no call is in flight. In `onInfer` (`DiscardOnClose` is FALSE) the
system really may stop before that, with callers waiting for a message that nobody will
read. For the same reason `EveryCallReturns` is claimed for `DiscardOnClose` only. Which of
the two kanal does is a question to its authors that this project makes precise: a session
thread that panics between two batches can block the batcher for ever if its queue is kept.

### Findings

1. `src/lib.rs:22` says that sessions "run in parallel". The batcher awaits each batch
   (`src/actor/batcher.rs:214`) before it collects the next, so one session works at a
   time, whatever `num_sessions` is. Run `parallel`; `SingleFlight` is proved.
2. `src/config.rs:173` and `273` say that "ONNX Runtime will use the first available"
   provider of the list. `src/session/builder.rs:71` (and 89, 104, 119) fails on any listed
   provider that is not compiled in, whatever else the list holds. Run `providers`: the list
   `Cpu`, `TensorRT` of `examples/tensorrt_inference.rs`, in a build with the feature `cuda` only,
   is refused by the probe of `from_url` at line 89.
3. `src/config.rs:49` and `51` say that `device_id` and `fp16` select the device and half
   precision, and `examples/tensorrt_inference.rs:59` prints that FP16 is enabled. The
   patterns at `src/session/builder.rs:61` and `77-78` discard both, and the default provider
   is registered (line 84). Run `options`.

Remarks, for which no run is kept.

* `src/actor/worker.rs:21` says that failed sessions are retried "with exponential backoff"; the
  delay is five seconds each time (line 52).
* A request is not sent "to an available ONNX session" (`src/server.rs:235`) but to the
  next in turn, ready or not (`src/actor/batcher.rs:202`). `shutdown()` (`src/server.rs:270`)
  drops one sender, so the server goes on while a clone lives.
* `src/lib.rs:24-26` describes a pipeline in which stages of several batches overlap. They
  do not: `OneBatchAtATime` is proved.
* A model whose output has as many columns as the batch has rows, with the axes swapped, gives
  every caller a column; the code compares only the count (`src/actor/batcher.rs:235`).
* `src/traits.rs:95` says that the batch axis is removed from what `postprocess()` gets, but
  `examples/image_processing.rs:72` takes the first axis for a batch: the class is an index of
  that axis, and a row with another number of axes panics, which its caller sees as a closed
  channel.
* `examples/audio_processing.rs:35` computes `1 << 31` as an `i32` for 32-bit files, which is
  negative: the polarity of such a recording is inverted.
* `/health` of the axum example says "ok" also when the batcher is dead, and a second
  Ctrl+C does not cut the draining short. A client that stalls in the middle of its body keeps
  its handler at line 59, and with it `main()` in the draining, for as long as it stays
  connected: neither has a timeout.
* In the actix server the timer of a request whose batch was flushed full is not
  cancelled (line 193) and flushes a later batch early, though no row is lost by it.

## 5. Proofs

`SuperserveProofs` and `ServiceProofs` prove, for every set of requests and handles, every
number of sessions, every size and every combination of faults, with the assumptions the
modules name (`RequestsAssumption`, `SessionsAssumption`, `InputsAssumption`,
`SwitchAssumption`, `HandlesAssumption`, `BatcherAssumption`):

| Theorem | Statement |
|---|---|
| `Invariance` | `Spec => []IInv` |
| `TypeCorrect` | `Spec => []TypeOK` |
| `SingleFlightHolds` | `Spec => []SingleFlight` |
| `AnswerFitsInputHolds` | `Spec => []AnswerFitsInput` |
| `BatchWithinLimitsHolds` | `Spec => []BatchWithinLimits` |
| `OneBatchAtATimeHolds` | `Spec => OneBatchAtATime` |
| `FateInvariance` | `Spec => [](FateInv /\ OnceInv)` |
| `NoCallerForgottenHolds` | `Spec => []NoCallerForgotten` |
| `ErrorsHaveCauseHolds` | `Spec => []ErrorsHaveCause` |
| `GracefulExitHolds` | `Spec => []GracefulExit` |
| `AnswersAreFinal` | `Spec => [][AnswersKept]_vars` |
| `ServerImplementsService` | `Spec => ImplementsService`, if `~CancelLoses` |

None of the properties is inductive. `TypeOK` alone is not: joining a task keeps the domain
of `results` within that of `responders` only because every task's index is one of the
batch's. `SingleFlight` needs to know that a busy thread holds a message, and that before a
dispatch the rows are those of the callers. `IInv` (in `SuperserveInv`) adds:

* `DataInPhase` - each piece of the batch exists in its own phases only;
* `BusyHolds` - a thread holds a message exactly while it is busy;
* `OneFlight` - `SingleFlight` with the place of the message;
* `RowsMatch` - every result, task, item, output is that of the caller at its place;
* `FailuresFiltered` - what fails in `preprocess()` is in no batch past the filter, and an
  index without result and task is one that failed;
* `WithinLimits` - sizes, from the first command on.

The proof goes by component: `CallerPreserves`, `WorkerPreserves`, `BatcherPreserves`, each
with one step per action. The one piece of mathematics is the filter: `DataLemmas` proves
that every finite set of indexes has an increasing list (by a least counterexample), so that
`InOrder` chooses one, and `FilteredLists` concludes that items and responders are filtered
to lists of equal length that match place by place.

`FateInv` and `OnceInv` are inductive once `IInv` is known, and say where every call is:

* `Placed` - an open responder belongs to a call that still preprocesses in `infer()`, that is
  in the command channel, or that is in the current batch. With it "nobody is forgotten"
  becomes local: a step that takes a call out of a place has to put it into another or answer it;
* `HandlesHeld`, `EndsTogether`, `ThreadEndsKnown`, `ResultCauses` - which task is gone when an
  end of a channel is: what turns an error into a statement about its cause, and why an
  empty channel without senders means that nobody is left;
* `OncePlaced`, `HeldUnanswered`, `CrashHasCause` - the places are disjoint lists without
  repetition, and a call in one of them has not been answered: the refinement needs this,
  or a second answer to one call would be a step that `BatchService` does not have.

The proofs by step are factored by effect. The batcher's actions are put into five classes by
what they do to the places: nothing (`Quiet`), gather a command (`Gathers`), answer some
of the batch (`Settles`), lose a command to the timer, or end (`BatcherGone`); a caller's by
what they do to its call. `BatcherEffects` proves that every action is in one of the classes, and
each class is one step of the invariant and one step of the abstract service:
`Gathers` is `Gather`, `Quiet` is `Seal` or a stutter, `Settles` is `Settle`, `BatcherGone`
is `Crash` or a stutter, a queued call is `Accept`. If the channel may lose commands, a
command disappears from the queue alone, which `BatchService` does not do; the theorem
therefore assumes `~CancelLoses`, and the safety theorems do not.

`AnswersAreFinal` needs one more invariant, `NotAnsweredYet`: a call that preprocesses has an
open oneshot, and only a call that has returned has an outcome. Who is answered is queued or
in the batch (`BatcherAnswersHeld`), and `HeldUnanswered` says that nobody there has an answer.

`StartupProofs` proves, for any set of calls, any arguments that satisfy `JobsAssumption`,
any features and any number of threads:

| Theorem | Statement |
|---|---|
| `StartupInvariance` | `Spec => []StartupInv` |
| `StartupTypeOK` | `Spec => []TypeOK` |
| `OwnModelHolds` | `Spec => []OwnModel` |
| `ThreadsCanHopeHolds` | `Spec => []ThreadsCanHope` |

`StartupInv` adds what lies at the path of a call (`OwnFiles`: its own model, whole or
broken) and what a call knows at each place (`Knowledge`: past the probe the providers are
accepted and the model loads). The lemma that carries it is `PathsDiffer`: two calls with
one path are the same call.

`DataLemmas`, `ExampleProofs` and `PipelineProofs` prove what is computed on the way of a batch.
They assume what the modules name: `TargetAssumption` (the target rate and length of the
audio example are positive) and `PipelineAssumption` (a picture has a size; a server has inputs
of one type; what a detector makes of a picture are numbers, as many as its shape says).

| Module | Theorem | Statement |
|---|---|---|
| `DataLemmas` | `SlicesOfStack` | slices of a stack are the items, for every shape and number of items |
| `ExampleProofs` | `ResampleInBounds`, `ResampleWithin`, `ResampleRises` | `resample_linear()` indexes no sample that is not there, stays within the recording, and rises where it rises |
| | `KeptApartHolds`, `LostToBetterHolds`, `OverlapIsOfAreasHolds` | `DetectionSpec => []...`, for any boxes and tasks |
| | `BestFirstIsUnique`, `LoopFindsBestFirst` | one list at most is what `IsBestFirst` says, and the loop ends with it |
| | `LoopShrinks` | while detections wait one of them is the first, and each turn leaves fewer |
| `PipelineProofs` | `OutputByRows` | a model with `BatchFirst` gives one slice per item, that of the item alone |
| | `PipelineInvariance` | `Spec => []PipelineInv` |
| | `PipelineTypes` | `Spec => []TypeOK` |
| | `BatchingIsTransparentHolds` | `Spec => []BatchingIsTransparent` |
| | `BatchBreaksByShapesOnlyHolds` | `Spec => []BatchBreaksByShapesOnly` |
| | `ResamplingKeepsOrderHolds` | `Spec => []ResamplingKeepsOrder` |
| | `DetectionsOfBatch` | `Spec => []KeptApart /\ []LostToBetter /\ []OverlapIsOfAreas` |
| | `PipelineImplementsDetection` | `Spec => DetectionSpec` |

`BatchingIsTransparent` speaks of answers only, so it says nothing of a batch under way.
`PipelineInv` does:

* `ItemsInv` - each item is what `preprocess()` makes of the input at its index, and an input
  that fails has none;
* `SessionInv` - what the session gets is the stack of all items in the order of their indexes, and
  what comes back is the list of slices of what the model makes of that stack;
* `LoopInv` - the boxes of a suppression task are those of the slice of its own caller;
* `DetectionInv` - the invariant of suppression, `KeptApart` and `LostToBetter` with
  `RestIsWorse`: what is still in the vector is worse than all that is kept and overlaps none of it;
* `AnswersInv` - `BatchingIsTransparent` and `BatchBreaksByShapesOnly` with the tags of answers.

The proof has one lemma per action. Those of the answers share `LaterPreserves` and
`AnswersPreserved`, which reduce them to the reply they give. Four facts carry them:

* stacking and slicing are inverse. `SlicesOfStack` rests on one fact of arithmetic, that quotient
  and remainder undo `(i - 1) * s + k`, and on `SizeIsProduct`: the fold that multiplies a shape
  is a product over its axes, shown along the chain of its partial products;
* `RowAlone` and `SliceOfCaller` - a model with `BatchFirst` maps rows to rows, so the slice
  of a caller is the one slice of a batch of one;
* suppression has one result. `Before` is a strict order on the anchors, so the best box that two
  lists do not share would have to be lost to a better one in only one of them. Hence `Alone` may
  describe the result by what it is, and the loop, whatever other tasks do, finds it;
* the shape of an item depends on what its caller asked for only, as an audio item is cut or padded
  to one length (`AudioTensorIsFixed`) and a picture is resized.

`ResampleRises` has two cases, as two output samples fall between the same two samples
of the recording or not, and `OverlapIsOfAreas` counts the cells of rectangles by the
cardinality of products and unions. Where a proof is by induction over a length, it is by a
least counterexample among the natural numbers (`NatInSet`), which needs no operator as a parameter.

| Module | Theorem | Statement |
|---|---|---|
| `AxumProofs` | `AxumTypeOK`, `NobodyCutOffHolds`, `ResponsesFitHold` | `Spec => []...`, for any requests and batch size |
| `ActixProofs` | `ActixTypeOK`, `LogitsAreOwnHolds`, `OneSenderEachHolds`, `DroppedByPanicOnlyHolds` | `Spec => []...`, for any requests and batch size |

The invariant of the axum example adds
`CallsHaveHandlers`: a queued call has a handler that waits, or one that was dropped. That of the
actix server adds `SideBySide` (rows and senders are equal lists in every message) and, for
`OneSenderEach`, `SenderInv`: a request is on its way to the batcher while its oneshot is not
made, and in one place while it is open.

Only model-checked are the liveness properties, which are out of the prover's reach:
`EveryCallReturns`, `ShutdownCompletes`, `ImplementsFairService` (whose safety part is
`ServerImplementsService`), `ThreadsComeUp`, `SignalEndsMain` and the two `EveryHandlerEnds`.
`LoopShrinks` proves of one loop what makes it end.

## 6. Not modelled

* *The other benchmark servers*: HTTP wrappers over one call of the crate, of a mutex, of an
  actor or of the `batched_fn` macro. The two with a mutex have one behaviour worth a model,
  that a panic under the lock poisons it for all later requests; they come next.
* *BenchClient*: the ramp of load generators and the sampling of a shared counter.
* *Turn order* at the wrap of `dispatch_index`, when `num_sessions` does not divide 2^64: only
  that the index stays in range is checked and proved. A turn that is skipped once in 2^64
  batches changes no answer.
* *Pixels*: resizing, normalisation, image decoding (`benchmarks/servers/shared`, the image and
  person examples) are numeric code of a library or beside the point of any property here.
* *`main()` of the examples* other than axum's: they call `infer()` once or a few times, which
  are instances of `Callers`.
* `src/error.rs`, whose enum nothing constructs, tests, plots and scripts.

`PROJECT.json` lists each with its reason.
