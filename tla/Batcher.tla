------------------------------ MODULE Batcher -------------------------------
(***************************************************************************)
(* The batcher task (src/actor/batcher.rs): it collects commands into a    *)
(* batch, preprocesses them, hands the batch to one session, waits for the *)
(* outputs, and answers every caller of the batch before it starts the     *)
(* next one.  A phase is a place where the task is suspended, or where a   *)
(* call of user code may divert it.                                        *)
(***************************************************************************)
EXTENDS Channels, Indexes

CONSTANTS
  MaxBatch,    \* config.max_batch_size
  MinBatch,    \* config.min_batch_size
  IndexMod,    \* number of values of dispatch_index, a usize
  CancelLoses  \* whether a recv() that select! abandons can lose a command

ASSUME BatcherAssumption ==
  /\ MaxBatch \in Nat /\ MinBatch \in Nat
  /\ IndexMod \in Nat \ {0}
  /\ CancelLoses \in BOOLEAN

VARIABLES
  phase,
  batch_buffer,       \* the commands collected so far
  responders,         \* the callers of the batch in work, in batch order
  preprocess_tasks,   \* the JoinSet of running preprocess() calls
  results,            \* preprocessed item by index into the batch
  preprocessed_items, \* the rows given to I::batch
  postprocess_tasks,  \* the JoinSet of running postprocess() calls
  dispatch_index

batchVars == <<batch_buffer, responders, preprocess_tasks, results,
               preprocessed_items, postprocess_tasks>>
batcherVars == <<phase, batchVars, dispatch_index>>

Phases == {"recv", "collect", "preprocess", "batch", "await", "post",
           "unwinding", "dead", "exited"}
PreprocessTask == [idx : Nat, input : Requests]
PostprocessTask == [raw_output : Requests, responder : Requests]

BatcherTypeOK ==
  /\ phase \in Phases
  /\ batch_buffer \in Seq(Requests)
  /\ responders \in Seq(Requests)
  /\ preprocess_tasks \subseteq PreprocessTask
  /\ DOMAIN results \subseteq DOMAIN responders
  /\ results \in [DOMAIN results -> Requests]
  /\ preprocessed_items \in Seq(Requests)
  /\ postprocess_tasks \subseteq PostprocessTask
  /\ dispatch_index \in 0 .. IndexMod - 1

BatcherInit ==
  /\ phase = "recv"
  /\ batch_buffer = << >>
  /\ responders = << >>
  /\ preprocess_tasks = {}
  /\ results = << >>
  /\ preprocessed_items = << >>
  /\ postprocess_tasks = {}
  /\ dispatch_index = 0

-----------------------------------------------------------------------------
(* Collecting a batch. *)

\* Slip: the newest command is taken first.
TakeNewest ==
  /\ commands # << >>
  /\ batch_buffer' = Append(batch_buffer, commands[Len(commands)])
  /\ commands' = SubSeq(commands, 1, Len(commands) - 1)
  /\ UNCHANGED <<responders, preprocess_tasks, results, preprocessed_items,
                 postprocess_tasks, dispatch_index, senders, command_rx,
                 responder, workerChannels, result>>

TakeCommand ==
  /\ commands # << >>
  /\ batch_buffer' = Append(batch_buffer, Head(commands))
  /\ commands' = Tail(commands)
  /\ UNCHANGED <<responders, preprocess_tasks, results, preprocessed_items,
                 postprocess_tasks, dispatch_index, senders, command_rx,
                 responder, workerChannels, result>>

FirstCommand ==
  /\ phase = "recv"
  /\ TakeCommand
  /\ phase' = "collect"

\* Slip: a clone of the worker senders outlives the task.
CommandsEndKeepingWorkers ==
  /\ phase = "recv"
  /\ CommandsClosed
  /\ phase' = "exited"
  /\ command_rx' = FALSE
  /\ UNCHANGED <<batchVars, dispatch_index, senders, commands, responder,
                 workerChannels, result>>

\* recv() fails at the head of the loop: the task ends and drops its ends of
\* the channels.
CommandsEnd ==
  /\ phase = "recv"
  /\ CommandsClosed
  /\ phase' = "exited"
  /\ command_rx' = FALSE
  /\ worker_txs' = FALSE
  /\ UNCHANGED <<batchVars, dispatch_index, senders, commands, responder,
                 worker_rx, worker_queue, result>>

\* Slip: one command too many.
MayCollectPastLimit == phase = "collect" /\ Len(batch_buffer) <= MaxBatch

MayCollect == phase = "collect" /\ Len(batch_buffer) < MaxBatch

Collect ==
  /\ MayCollect
  /\ TakeCommand
  /\ UNCHANGED phase

\* Slip: the refused commands are cleared without an answer.
RefusedInSilence == Dropped

Refusal == Err("insufficient")

(***************************************************************************)
(* The end of collection.  A batch below the minimum is refused as a       *)
(* whole; any other moves into responders, and a task is spawned for every *)
(* input that infer() did not preprocess itself.  The commands in "lost"   *)
(* are dropped on the way.                                                 *)
(***************************************************************************)
EndCollection(lost) ==
  LET refused == IF Len(batch_buffer) < MinBatch
                   THEN Range(batch_buffer) ELSE {}
  IN  /\ responder' = [r \in Requests |->
                         IF r \in lost THEN Dropped
                         ELSE IF r \in refused THEN Refusal
                         ELSE responder[r]]
      /\ batch_buffer' = << >>
      /\ IF Len(batch_buffer) < MinBatch
           THEN /\ phase' = "recv"
                /\ UNCHANGED <<responders, preprocess_tasks, results>>
           ELSE /\ phase' = "preprocess"
                /\ responders' = batch_buffer
                /\ IF PreprocessOnInfer
                     THEN /\ results' = batch_buffer
                          /\ UNCHANGED preprocess_tasks
                     ELSE /\ preprocess_tasks' =
                               {[idx |-> i, input |-> batch_buffer[i]] :
                                  i \in DOMAIN batch_buffer}
                          /\ UNCHANGED results
      /\ UNCHANGED <<preprocessed_items, postprocess_tasks, dispatch_index,
                     senders, command_rx, workerChannels, result>>

Full ==
  /\ phase = "collect" /\ Len(batch_buffer) >= MaxBatch
  /\ EndCollection({})
  /\ UNCHANGED commands

\* max_wait_time may elapse at any moment, however many commands wait.
Timeout ==
  /\ MayCollect
  /\ EndCollection({})
  /\ UNCHANGED commands

\* The recv() that loses the race against the timer had been handed a command.
TimeoutLoses ==
  /\ CancelLoses
  /\ MayCollect
  /\ commands # << >>
  /\ EndCollection({Head(commands)})
  /\ commands' = Tail(commands)

ClosedWhileCollecting ==
  /\ MayCollect
  /\ CommandsClosed
  /\ EndCollection({})
  /\ UNCHANGED commands

-----------------------------------------------------------------------------
(* Preprocessing. *)

\* join_next(): tasks finish in any order; a failed or a panicked one leaves
\* no result.
JoinPreprocess(t) ==
  /\ phase = "preprocess"
  /\ t \in preprocess_tasks
  /\ preprocess_tasks' = preprocess_tasks \ {t}
  /\ results' = IF t.input \in PreErr \cup PrePanic
                  THEN results
                  ELSE [i \in DOMAIN results \cup {t.idx} |->
                          IF i = t.idx THEN t.input ELSE results[i]]
  /\ UNCHANGED <<phase, batch_buffer, responders, preprocessed_items,
                 postprocess_tasks, dispatch_index, channelVars>>

\* (0..batch_len).filter_map(|idx| results.remove(&idx))
ItemsInOrder ==
  LET e == InOrder(DOMAIN results)
  IN  [k \in DOMAIN e |-> results[e[k]]]

\* Slip: the responders follow results.keys(), which has no order.
RespondersByKey ==
  LET e == InOrder(DOMAIN results)
  IN  [k \in DOMAIN e |-> responders[e[Len(e) + 1 - k]]]

\* The responders at the indexes that have a result, in their old order.
KeptResponders ==
  LET e == InOrder(DOMAIN results)
  IN  [k \in DOMAIN e |-> responders[e[k]]]

\* Slip: a responder without a result is dropped when the filter skips it.
FailureUnsent == Dropped

FailureReply == Err("preprocess")

FailedResponders ==
  {responders[i] : i \in DOMAIN responders \ DOMAIN results}

ForgetBatch ==
  /\ responders' = << >>
  /\ results' = << >>
  /\ preprocessed_items' = << >>
  /\ UNCHANGED <<batch_buffer, preprocess_tasks, dispatch_index>>

FinishPreprocess ==
  /\ phase = "preprocess"
  /\ preprocess_tasks = {}
  /\ responder' = Send(FailedResponders, FailureReply)
  /\ IF DOMAIN results = {}
       THEN phase' = "recv" /\ ForgetBatch
       ELSE /\ phase' = "batch"
            /\ preprocessed_items' = ItemsInOrder
            /\ responders' = KeptResponders
            /\ results' = << >>
            /\ UNCHANGED <<batch_buffer, preprocess_tasks, dispatch_index>>
  /\ UNCHANGED <<postprocess_tasks, commandChannel, workerChannels, result>>

-----------------------------------------------------------------------------
(* Handing the batch to a session, and waiting for its outputs. *)

\* Slip: the responders are dropped, the error is only logged.
FailBatchInSilence(error) ==
  /\ responder' = Send(Range(responders), Dropped)
  /\ phase' = "recv"
  /\ ForgetBatch
  /\ UNCHANGED postprocess_tasks

\* Every caller of the batch gets the same error, and the loop starts over.
FailBatch(error) ==
  /\ responder' = Send(Range(responders), Err(error))
  /\ phase' = "recv"
  /\ ForgetBatch
  /\ UNCHANGED postprocess_tasks

BatchFails ==
  /\ "batchErr" \in Faults
  /\ phase = "batch"
  /\ FailBatch("batching")
  /\ UNCHANGED <<commandChannel, workerChannels, result>>

\* I::batch panics, or there is no session and "% num_workers" does.  The
\* responders of the batch are dropped first.
BatchPanics ==
  /\ "batchPanic" \in Faults \/ NumSessions = 0
  /\ phase = "batch"
  /\ phase' = "unwinding"
  /\ responder' = Send(Range(responders), Dropped)
  /\ ForgetBatch
  /\ UNCHANGED <<postprocess_tasks, commandChannel, workerChannels, result>>

\* Slip: another task keeps the receiver of the commands alive.
BatcherGoneKeepingReceiver ==
  /\ phase = "unwinding"
  /\ phase' = "dead"
  /\ worker_txs' = FALSE
  /\ UNCHANGED <<batchVars, dispatch_index, commandChannel, responder,
                 worker_rx, worker_queue, result>>

\* ... and the receiver of the commands and the worker senders with the task.
BatcherGone ==
  /\ phase = "unwinding"
  /\ phase' = "dead"
  /\ command_rx' = FALSE
  /\ worker_txs' = FALSE
  /\ IF DiscardOnClose
       THEN /\ commands' = << >>
            /\ responder' = Send(Range(commands), Dropped)
       ELSE UNCHANGED <<commands, responder>>
  /\ UNCHANGED <<batchVars, dispatch_index, senders, worker_rx, worker_queue,
                 result>>

WorkerIdx == (dispatch_index % NumSessions) + 1

\* Slip: the counter does not wrap.
NextIndexUnwrapped == dispatch_index + 1

NextIndex == (dispatch_index + 1) % IndexMod

\* A new result channel, and the message to the next worker in turn.
Dispatch ==
  /\ phase = "batch" /\ NumSessions > 0
  /\ WorkerIdx \in worker_rx
  /\ dispatch_index' = NextIndex
  /\ result' = [id |-> result.id + 1, state |-> "pending", outputs |-> << >>]
  /\ worker_queue' = [worker_queue EXCEPT ![WorkerIdx] =
       Append(@, [id |-> result.id + 1, batched_tensor |-> preprocessed_items])]
  /\ preprocessed_items' = << >>
  /\ phase' = "await"
  /\ UNCHANGED <<batch_buffer, responders, preprocess_tasks, results,
                 postprocess_tasks, commandChannel, responder, worker_txs,
                 worker_rx>>

\* send() fails: the receiver of that worker is gone.  The turn is used up.
WorkerUnavailable ==
  /\ phase = "batch" /\ NumSessions > 0
  /\ WorkerIdx \notin worker_rx
  /\ dispatch_index' = NextIndex
  /\ responder' = Send(Range(responders), Err("unavailable"))
  /\ phase' = "recv"
  /\ responders' = << >>
  /\ preprocessed_items' = << >>
  /\ UNCHANGED <<batch_buffer, preprocess_tasks, results, postprocess_tasks,
                 commandChannel, workerChannels, result>>

\* Slip: the batcher gives up on a session that is slow.
AwaitingWithTimeout(state) ==
  /\ phase = "await"
  /\ result.state = state \/ (state = "closed" /\ result.state = "pending")

Awaiting(state) == phase = "await" /\ result.state = state

ResultFails ==
  /\ \/ Awaiting("err") /\ FailBatch("inference")
     \/ Awaiting("closed") /\ FailBatch("worker_closed")
     \/ /\ Awaiting("ok") /\ Len(result.outputs) # Len(responders)
        /\ FailBatch("mismatch")
  /\ UNCHANGED <<commandChannel, workerChannels, result>>

\* Slip: zip() without the comparison of the counts.
ZipUnchecked ==
  /\ Awaiting("ok")
  /\ phase' = "post"
  /\ postprocess_tasks' =
       {[raw_output |-> result.outputs[i], responder |-> responders[i]] :
          i \in DOMAIN responders \cap DOMAIN result.outputs}
  /\ responders' = << >>
  /\ UNCHANGED <<batch_buffer, preprocess_tasks, results, preprocessed_items,
                 dispatch_index, channelVars>>

\* The outputs are zipped with the responders, one task for each pair.
ResultOk ==
  /\ Awaiting("ok") /\ Len(result.outputs) = Len(responders)
  /\ phase' = "post"
  /\ postprocess_tasks' =
       {[raw_output |-> result.outputs[i], responder |-> responders[i]] :
          i \in DOMAIN responders}
  /\ responders' = << >>
  /\ UNCHANGED <<batch_buffer, preprocess_tasks, results, preprocessed_items,
                 dispatch_index, channelVars>>

-----------------------------------------------------------------------------
(* Postprocessing. *)

PostprocessVerdict(row) ==
  IF row \in PostPanic THEN Dropped
  ELSE IF row \in PostErr THEN Err("postprocess")
  ELSE Ok(row)

\* One task ends: it sends its own answer, or drops its responder by a panic.
Postprocess(t) ==
  /\ phase = "post"
  /\ t \in postprocess_tasks
  /\ responder' = Send({t.responder}, PostprocessVerdict(t.raw_output))
  /\ postprocess_tasks' = postprocess_tasks \ {t}
  /\ UNCHANGED <<phase, batch_buffer, responders, preprocess_tasks, results,
                 preprocessed_items, dispatch_index, commandChannel,
                 workerChannels, result>>

\* Slip: the JoinSet is detached instead of awaited.
DetachPostprocess ==
  /\ phase = "post"
  /\ phase' = "recv"
  /\ UNCHANGED <<batchVars, dispatch_index, channelVars>>

FinishPostprocess ==
  /\ phase = "post"
  /\ postprocess_tasks = {}
  /\ phase' = "recv"
  /\ UNCHANGED <<batchVars, dispatch_index, channelVars>>

-----------------------------------------------------------------------------
Collecting ==
  \/ FirstCommand \/ CommandsEnd \/ Collect
  \/ Full \/ Timeout \/ TimeoutLoses \/ ClosedWhileCollecting
Preprocessing ==
  \/ \E t \in preprocess_tasks : JoinPreprocess(t)
  \/ FinishPreprocess
Dispatching ==
  BatchFails \/ BatchPanics \/ BatcherGone \/ Dispatch \/ WorkerUnavailable
Answering ==
  \/ ResultFails \/ ResultOk
  \/ \E t \in postprocess_tasks : Postprocess(t)
  \/ FinishPostprocess

BatcherNext == Collecting \/ Preprocessing \/ Dispatching \/ Answering
=============================================================================
