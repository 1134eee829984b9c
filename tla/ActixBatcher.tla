---------------------------- MODULE ActixBatcher ----------------------------
(***************************************************************************)
(* The batching server that the benchmarks compare ort-superserve with     *)
(* (benchmarks/servers/actix-with-batching-server): HTTP handlers send to  *)
(* one BatcherActor, which collects requests and flushes them when the     *)
(* batch is full or a timer fires, to one synchronous WorkerActor.  The    *)
(* batcher does not wait for the worker, and a timer is armed for every    *)
(* request that does not fill its batch and is never cancelled.            *)
(***************************************************************************)
EXTENDS Integers, Sequences, FiniteSets, Functions

CONSTANTS
  Requests,   \* the HTTP requests; a tensor row is named by its request
  BadInputs,  \* images that cannot be decoded
  MaxBatch,   \* MAX_BATCH_SIZE
  ModelFaults \* "err": inference may fail; "short": it may return fewer rows

ASSUME ActixAssumption ==
  /\ IsFiniteSet(Requests)
  /\ BadInputs \subseteq Requests
  /\ MaxBatch \in Nat \ {0}
  /\ ModelFaults \subseteq {"err", "short"}

None == [tag |-> "none", row |-> {}]
Open == [tag |-> "open", row |-> {}]
Dropped == [tag |-> "dropped", row |-> {}]
Empty == [tag |-> "empty", row |-> {}]
Logits(rows) == [tag |-> "logits", row |-> rows]
Answers == {None, Open, Dropped, Empty} \cup {Logits({q}) : q \in Requests}

HandlerStates == {"idle", "waiting", "replied", "panicked", "gone"}

VARIABLES
  handler,        \* per request, where its infer_handler is
  answer,         \* per request, the oneshot made for it
  mailbox,        \* the messages of the BatcherActor
  batch,          \* the rows collected
  result_txs,     \* the senders of their oneshots
  timers,         \* the requests whose run_later has not fired yet
  worker_mailbox, \* the batches sent to the WorkerActor
  worker_alive    \* FALSE once its thread has panicked

batcherState == <<batch, result_txs, timers>>
workerState == <<worker_mailbox, worker_alive>>
vars == <<handler, answer, mailbox, batcherState, workerState>>

TypeOK ==
  /\ handler \in [Requests -> HandlerStates]
  /\ answer \in [Requests -> Answers]
  /\ mailbox \in Seq(Requests)
  /\ batch \in Seq(Requests) /\ result_txs \in Seq(Requests)
  /\ timers \subseteq Requests
  /\ worker_mailbox \in Seq([batch : Seq(Requests), result_txs : Seq(Requests)])
  /\ worker_alive \in BOOLEAN

Init ==
  /\ handler = [r \in Requests |-> "idle"]
  /\ answer = [r \in Requests |-> None]
  /\ mailbox = << >>
  /\ batch = << >> /\ result_txs = << >> /\ timers = {}
  /\ worker_mailbox = << >> /\ worker_alive = TRUE

-----------------------------------------------------------------------------
(* The HTTP handlers. *)

Submit(r) ==
  /\ handler[r] = "idle" /\ r \notin BadInputs
  /\ handler' = [handler EXCEPT ![r] = "waiting"]
  /\ mailbox' = Append(mailbox, r)
  /\ UNCHANGED <<answer, batcherState, workerState>>

\* The blocking task panics on the image, and expect() on its result.
PreprocessPanics(r) ==
  /\ handler[r] = "idle" /\ r \in BadInputs
  /\ handler' = [handler EXCEPT ![r] = "panicked"]
  /\ UNCHANGED <<answer, mailbox, batcherState, workerState>>

\* expect() on a closed channel panics, and so does an empty answer.
Answered(r) ==
  /\ handler[r] = "waiting"
  /\ answer[r] \notin {None, Open}
  /\ handler' = [handler EXCEPT ![r] =
                   IF answer[r].tag = "logits" THEN "replied" ELSE "panicked"]
  /\ UNCHANGED <<answer, mailbox, batcherState, workerState>>

\* The client hangs up.
Disconnect(r) ==
  /\ handler[r] = "waiting"
  /\ handler' = [handler EXCEPT ![r] = "gone"]
  /\ UNCHANGED <<answer, mailbox, batcherState, workerState>>

-----------------------------------------------------------------------------
(* The BatcherActor. *)

\* Slip: the senders are cloned into the message, and stay.
DispatchKeepingSenders(rows, txs) ==
  /\ batch' = << >> /\ result_txs' = txs
  /\ worker_mailbox' = Append(worker_mailbox, [batch |-> rows, result_txs |-> txs])
  /\ UNCHANGED worker_alive

\* dispatch_batch(): do_send() to a worker that is gone drops the message.
Dispatch(rows, txs) ==
  /\ batch' = << >> /\ result_txs' = << >>
  /\ worker_mailbox' =
       IF worker_alive
         THEN Append(worker_mailbox, [batch |-> rows, result_txs |-> txs])
         ELSE worker_mailbox
  /\ UNCHANGED worker_alive

\* The senders that a dispatch would drop.
Lost(txs) == IF worker_alive THEN {} ELSE Range(txs)

IsFull(rows) == Len(rows) >= MaxBatch

\* Slip: a timer for the first row of a batch only, asked after the push.
ArmsForEmptyBatch(r, rows) == IF rows = << >> THEN timers \cup {r} ELSE timers

Arms(r, rows) == timers \cup {r}

\* handle(InferMessage): a oneshot, the row, and a flush or a timer.
Handle ==
  /\ mailbox # << >>
  /\ LET r == Head(mailbox)
         rows == Append(batch, r)
         txs == Append(result_txs, r)
     IN  /\ mailbox' = Tail(mailbox)
         /\ IF IsFull(rows)
              THEN /\ Dispatch(rows, txs)
                   /\ answer' = [q \in Requests |->
                                   IF q \in Lost(txs) THEN Dropped
                                   ELSE IF q = r THEN Open ELSE answer[q]]
                   /\ UNCHANGED timers
              ELSE /\ batch' = rows /\ result_txs' = txs
                   /\ timers' = Arms(r, rows)
                   /\ answer' = [answer EXCEPT ![r] = Open]
                   /\ UNCHANGED workerState
  /\ UNCHANGED handler

\* Whether actix hands over a message whose sender has gone is its own affair.
SkipAbandoned ==
  /\ mailbox # << >> /\ handler[Head(mailbox)] = "gone"
  /\ mailbox' = Tail(mailbox)
  /\ UNCHANGED <<handler, answer, batcherState, workerState>>

\* The closure of run_later: it flushes whatever is there.  All delays are equal,
\* but timers of the same millisecond may run in any order, so any may be next.
TimerFires(r) ==
  /\ r \in timers
  /\ timers' = timers \ {r}
  /\ IF batch = << >>
       THEN UNCHANGED <<batch, result_txs, answer, workerState>>
       ELSE /\ Dispatch(batch, result_txs)
            /\ answer' = [q \in Requests |->
                            IF q \in Lost(result_txs) THEN Dropped ELSE answer[q]]
  /\ UNCHANGED <<handler, mailbox>>

-----------------------------------------------------------------------------
(* The WorkerActor. *)

\* Slip: slices are taken from the end of the output.
SliceFromEnd(msg, i) == {msg.batch[Len(msg.batch) + 1 - i]}

\* Slip: data[start..], without the end.
SliceToEnd(msg, i) == {msg.batch[k] : k \in i .. Len(msg.batch)}

\* data[start..end]: the i-th row alone.
Slice(msg, i) == {msg.batch[i]}

\* The first n senders of the message get their slices, the others "rest".
SendSlices(msg, n, rest) ==
  [r \in Requests |->
     IF \E i \in DOMAIN msg.result_txs : msg.result_txs[i] = r
       THEN LET i == CHOOSE i \in DOMAIN msg.result_txs : msg.result_txs[i] = r
            IN  IF i <= n THEN Logits(Slice(msg, i)) ELSE rest
       ELSE answer[r]]

Infers ==
  /\ worker_alive /\ worker_mailbox # << >>
  /\ LET msg == Head(worker_mailbox)
     IN  answer' = SendSlices(msg, Len(msg.result_txs), Empty)
  /\ worker_mailbox' = Tail(worker_mailbox)
  /\ UNCHANGED <<handler, mailbox, batcherState, worker_alive>>

\* Slip: an early return without the loop over the senders.
FailureUnsent == Dropped

FailureAnswer == Empty

\* Any of the five error returns, or an output without columns.
InferFails ==
  /\ "err" \in ModelFaults
  /\ worker_alive /\ worker_mailbox # << >>
  /\ answer' = SendSlices(Head(worker_mailbox), 0, FailureAnswer)
  /\ worker_mailbox' = Tail(worker_mailbox)
  /\ UNCHANGED <<handler, mailbox, batcherState, worker_alive>>

\* The model returns n rows only: the slice of the next one panics, the thread
\* is gone, and with it this message and all that are queued behind it.
OutputTooShort(n) ==
  /\ "short" \in ModelFaults
  /\ worker_alive /\ worker_mailbox # << >>
  /\ n < Len(Head(worker_mailbox).result_txs)
  /\ LET behind == UNION {Range(worker_mailbox[k].result_txs) :
                            k \in 2 .. Len(worker_mailbox)}
     IN  answer' = [r \in Requests |->
                      IF r \in behind THEN Dropped
                      ELSE SendSlices(Head(worker_mailbox), n, Dropped)[r]]
  /\ worker_mailbox' = << >>
  /\ worker_alive' = FALSE
  /\ UNCHANGED <<handler, mailbox, batcherState>>

Works == Infers \/ InferFails \/ \E n \in 0 .. MaxBatch - 1 : OutputTooShort(n)

-----------------------------------------------------------------------------
\* Every request has come and gone, and every timer has fired.
Quiet ==
  /\ \A r \in Requests : handler[r] \notin {"idle", "waiting"}
  /\ mailbox = << >> /\ timers = {} /\ worker_mailbox = << >>

Next ==
  \/ \E r \in Requests :
       Submit(r) \/ PreprocessPanics(r) \/ Answered(r) \/ Disconnect(r)
         \/ TimerFires(r)
  \/ Handle \/ SkipAbandoned
  \/ Works
  \/ Quiet /\ UNCHANGED vars

Spec == Init /\ [][Next]_vars

(***************************************************************************)
(* The actors take their messages, timers fire, inference returns and the  *)
(* handlers are polled.  Nobody has to send a request.                     *)
(***************************************************************************)
Fairness ==
  /\ \A r \in Requests : WF_vars(Answered(r)) /\ WF_vars(TimerFires(r))
  /\ WF_vars(Handle) /\ WF_vars(Works)

FairSpec == Spec /\ Fairness
-----------------------------------------------------------------------------
\* Logits that reach a handler were computed from that handler's own image:
\* rows and senders travel in two vectors and are matched by position only
\* (dispatch_batch and the slicing loop).
LogitsAreOwn ==
  \A r \in Requests : answer[r].tag = "logits" => answer[r].row = {r}

\* The places where the sender of a request is.
Places(r) ==
  {<<0, i>> : i \in {j \in DOMAIN result_txs : result_txs[j] = r}}
    \cup UNION {{<<k, i>> : i \in {j \in DOMAIN worker_mailbox[k].result_txs :
                                     worker_mailbox[k].result_txs[j] = r}} :
                  k \in DOMAIN worker_mailbox}

\* An unanswered request is in exactly one batch, and an answered one in none,
\* however the flush by size and the flushes by timers interleave.
OneSenderEach ==
  \A r \in Requests :
    Cardinality(Places(r)) = (IF answer[r] = Open THEN 1 ELSE 0)

\* A sender is dropped unanswered only by the panic of the worker's thread.
DroppedByPanicOnly ==
  (\E r \in Requests : answer[r] = Dropped) => ~worker_alive

\* Every handler ends, also after the death of the worker: each row that waits
\* in the batch has a timer that is still to fire.
EveryHandlerEnds ==
  \A r \in Requests : handler[r] = "waiting" ~> handler[r] # "waiting"
=============================================================================
