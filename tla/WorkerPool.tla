----------------------------- MODULE WorkerPool -----------------------------
(***************************************************************************)
(* The session threads (src/actor/worker.rs).  Each builds its own ONNX    *)
(* session, retrying for as long as the build fails, and then serves the   *)
(* messages of its own channel one at a time until that channel is closed. *)
(* A panic ends the thread; nothing starts another one in its place.       *)
(***************************************************************************)
EXTENDS Channels

VARIABLES
  session,  \* per worker, where its thread is
  current   \* per worker, << >> or the message it is processing

workerVars == <<session, current>>

SessionStates ==
  {"init", "sleeping", "idle", "busy", "unwinding", "exited", "dead"}

WorkerPoolTypeOK ==
  /\ session \in [Workers -> SessionStates]
  /\ current \in [Workers -> Seq(WorkerMessage)]

WorkerPoolInit ==
  /\ session = [w \in Workers |-> "init"]
  /\ current = [w \in Workers |-> << >>]

\* What a thread leaves alone while it works on its message.
OtherChannels == <<commandChannel, responder, worker_txs>>

BuildSession(w) ==
  /\ session[w] = "init"
  /\ session' = [session EXCEPT ![w] = "idle"]
  /\ UNCHANGED <<current, channelVars>>

\* The build failed: the thread sleeps for a fixed five seconds.
BuildFails(w) ==
  /\ "initErr" \in Faults
  /\ session[w] = "init"
  /\ session' = [session EXCEPT ![w] = "sleeping"]
  /\ UNCHANGED <<current, channelVars>>

Retry(w) ==
  /\ session[w] = "sleeping"
  /\ session' = [session EXCEPT ![w] = "init"]
  /\ UNCHANGED <<current, channelVars>>

Receive(w) ==
  /\ session[w] = "idle"
  /\ worker_queue[w] # << >>
  /\ session' = [session EXCEPT ![w] = "busy"]
  /\ current' = [current EXCEPT ![w] = << Head(worker_queue[w]) >>]
  /\ worker_queue' = [worker_queue EXCEPT ![w] = Tail(@)]
  /\ UNCHANGED <<OtherChannels, worker_rx, result>>

\* recv() fails once the batcher's senders are gone and the queue is drained.
WorkerClosed(w) ==
  /\ session[w] = "idle"
  /\ worker_queue[w] = << >> /\ ~worker_txs
  /\ session' = [session EXCEPT ![w] = "exited"]
  /\ worker_rx' = worker_rx \ {w}
  /\ UNCHANGED <<current, OtherChannels, worker_queue, result>>

\* The end of process_message(): the thread sends its result and waits for
\* the next message.
Finish(w, state, outputs) ==
  /\ Resolve(current[w][1].id, state, outputs)
  /\ session' = [session EXCEPT ![w] = "idle"]
  /\ current' = [current EXCEPT ![w] = << >>]
  /\ UNCHANGED <<OtherChannels, worker_rx, worker_queue>>

\* The model computes one output per row; axis 0 of the output is sliced in
\* order.
ProcessOk(w) ==
  /\ session[w] = "busy"
  /\ Finish(w, "ok", current[w][1].batched_tensor)

\* The model's output has another number of rows than its input had.
ProcessOtherCount(w) ==
  /\ "count" \in Faults
  /\ session[w] = "busy"
  /\ LET rows == current[w][1].batched_tensor
     IN  \E outputs \in {Tail(rows), Append(rows, Head(rows))} :
            Finish(w, "ok", outputs)

\* Slip: an error return that forgets to send the error.
ProcessErrUnsent(w) ==
  /\ "inferErr" \in Faults
  /\ session[w] = "busy"
  /\ Finish(w, "closed", << >>)

\* Any of the error returns of process_message().
ProcessErr(w) ==
  /\ "inferErr" \in Faults
  /\ session[w] = "busy"
  /\ Finish(w, "err", << >>)

\* process_message() panics (a scalar output has no axis 0, the runtime
\* panics): unwinding drops result_tx, while the receiver still exists.
WorkerPanics(w) ==
  /\ "workerPanic" \in Faults
  /\ session[w] = "busy"
  /\ Resolve(current[w][1].id, "closed", << >>)
  /\ session' = [session EXCEPT ![w] = "unwinding"]
  /\ current' = [current EXCEPT ![w] = << >>]
  /\ UNCHANGED <<OtherChannels, worker_rx, worker_queue>>

\* Slip: what was queued for the dead thread is kept, result_tx included.
WorkerGoneKeepingQueue(w) ==
  /\ session[w] = "unwinding"
  /\ session' = [session EXCEPT ![w] = "dead"]
  /\ worker_rx' = worker_rx \ {w}
  /\ UNCHANGED <<current, OtherChannels, worker_queue, result>>

\* The unwinding thread drops its receivers.  If kanal discards what is
\* queued, the result_tx of a message that arrived meanwhile is dropped too.
WorkerGone(w) ==
  /\ session[w] = "unwinding"
  /\ session' = [session EXCEPT ![w] = "dead"]
  /\ worker_rx' = worker_rx \ {w}
  /\ IF DiscardOnClose
       THEN /\ worker_queue' = [worker_queue EXCEPT ![w] = << >>]
            /\ IF \E i \in DOMAIN worker_queue[w] :
                    worker_queue[w][i].id = result.id
                 THEN Resolve(result.id, "closed", << >>)
                 ELSE UNCHANGED result
       ELSE UNCHANGED <<worker_queue, result>>
  /\ UNCHANGED <<current, OtherChannels>>

Process(w) ==
  ProcessOk(w) \/ ProcessOtherCount(w) \/ ProcessErr(w) \/ WorkerPanics(w)

WorkerStep(w) ==
  \/ BuildSession(w) \/ BuildFails(w) \/ Retry(w)
  \/ Receive(w) \/ WorkerClosed(w) \/ Process(w) \/ WorkerGone(w)

WorkerPoolNext == \E w \in Workers : WorkerStep(w)
=============================================================================
