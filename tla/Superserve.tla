----------------------------- MODULE Superserve -----------------------------
(***************************************************************************)
(* The whole server: callers, the batcher and the session threads of one   *)
(* ort-superserve Server, running side by side over their channels.        *)
(***************************************************************************)
EXTENDS Callers, WorkerPool, Batcher

vars == <<channelVars, callerVars, workerVars, batcherVars>>

Init == ChannelsInit /\ CallersInit /\ WorkerPoolInit /\ BatcherInit

CallerAction == CallersNext /\ UNCHANGED <<workerVars, batcherVars>>
BatcherAction == BatcherNext /\ UNCHANGED <<callerVars, workerVars>>
WorkerAction == WorkerPoolNext /\ UNCHANGED <<callerVars, batcherVars>>

\* Everything has come to its end: the one state in which the system stops.
Stopped ==
  /\ senders = {}
  /\ phase \in {"exited", "dead"}
  /\ \A w \in Workers : session[w] \in {"exited", "dead"}
  /\ \A r \in Requests : ~InFlight(r)
Terminating == Stopped /\ UNCHANGED vars

Next == CallerAction \/ BatcherAction \/ WorkerAction \/ Terminating

Spec == Init /\ [][Next]_vars

(***************************************************************************)
(* The runtime polls every ready task and the machine runs every thread,   *)
(* user code returns, and a build that is retried for ever succeeds in the *)
(* end.  Nobody is obliged to make, to cancel or to shut down anything.    *)
(***************************************************************************)
Fairness ==
  /\ \A r \in Requests :
       WF_vars(CallersStep(r) /\ UNCHANGED <<workerVars, batcherVars>>)
  /\ WF_vars(BatcherAction)
  /\ \A w \in Workers :
       /\ WF_vars(WorkerStep(w) /\ UNCHANGED <<callerVars, batcherVars>>)
       /\ SF_vars(BuildSession(w) /\ UNCHANGED <<callerVars, batcherVars>>)

FairSpec == Spec /\ Fairness

-----------------------------------------------------------------------------
(* Every variable holds values of its declared Rust type. *)
TypeOK ==
  ChannelsTypeOK /\ CallersTypeOK /\ WorkerPoolTypeOK /\ BatcherTypeOK

\* A reply that reached a caller was computed from that caller's own input,
\* and an input that fails in preprocess() or postprocess() gets that error,
\* whatever its neighbours in the batch did (filtering and zipping of
\* responders in batcher.rs).
AnswerFitsInput ==
  \A r \in Requests :
    LET reply == responder[r] IN
    /\ reply.tag = "ok" =>
         /\ reply.row = {r}
         /\ r \notin PreErr \cup PrePanic \cup PostErr \cup PostPanic
    /\ reply.tag = "preprocess" => r \in PreErr \cup PrePanic
    /\ reply.tag = "postprocess" => r \in PostErr

\* A responder is dropped unanswered only when the task that held it was lost
\* (its own postprocess() panicked, the batcher panicked, or the channel lost
\* the command), or when infer() ended before it queued anything: no error
\* path of the batcher forgets a caller of its batch.
NoCallerForgotten ==
  \A r \in Requests : responder[r] = Dropped =>
    \/ r \in PostPanic
    \/ phase \in {"unwinding", "dead"}
    \/ CancelLoses
    \/ PreprocessOnInfer /\ ~InFlight(r)

\* The messages handed to session w that it has not finished with.
Work(w) == current[w] \o worker_queue[w]

\* At most one batch is with the sessions, it is the one the batcher waits
\* for, its rows are the inputs of the callers the batcher will answer, in
\* their order, and its result has not been sent yet.  A result that comes
\* late, or from another session, can therefore never be given to the callers
\* of a later batch (dispatch and await in batcher.rs, result_tx in worker.rs).
SingleFlight ==
  /\ \A v, w \in Workers : v # w => Work(v) = << >> \/ Work(w) = << >>
  /\ \A w \in Workers : Work(w) # << >> =>
       /\ phase = "await" /\ result.state = "pending"
       /\ Work(w) = << [id |-> result.id, batched_tensor |-> responders] >>

\* A batch is never empty when it reaches a session and never larger than
\* max_batch_size, except that the first command is taken unconditionally, so
\* that 0 acts as 1 (the collection loop, and the filter after preprocessing).
BatchWithinLimits ==
  LET limit == IF MaxBatch = 0 THEN 1 ELSE MaxBatch IN
  /\ Len(batch_buffer) <= limit
  /\ phase \in {"batch", "await"} => Len(responders) \in 1 .. limit

\* When the batcher has left its loop, nothing that was accepted is left
\* unanswered anywhere: the channel was drained, no caller waits on an open
\* responder, and no session has work (the two recv() error paths).
GracefulExit ==
  phase = "exited" =>
    /\ senders = {} /\ commands = << >>
    /\ \A r \in Requests : responder[r] # Open
    /\ \A w \in Workers : Work(w) = << >>

\* The errors that speak of the server and not of the input are returned only
\* when that part of it has really failed: shutdown() of some handles never
\* closes the channel under a call in progress, and a session that is slow or
\* starting is never reported as unavailable.
ErrorsHaveCause ==
  \A r \in Requests :
    /\ outcome[r] = ServerClosed => phase = "dead"
    /\ responder[r].tag = "unavailable" =>
         \E w \in Workers : session[w] = "dead"
    /\ responder[r].tag = "worker_closed" =>
         \E w \in Workers : session[w] \in {"unwinding", "dead"}
    /\ responder[r].tag = "insufficient" => MinBatch > 1
    /\ responder[r].tag = "mismatch" => "count" \in Faults

\* Batches take the commands in the order they were queued, and a batch is
\* taken only after every caller of the one before has been answered: no step
\* puts a command into the buffer while responders of an older batch are open.
OneBatchAtATime ==
  [][batch_buffer' # batch_buffer /\ batch_buffer' # << >> =>
       /\ batch_buffer' = Append(batch_buffer, Head(commands))
       /\ responders = << >> /\ postprocess_tasks = {}]_vars

\* infer() returns, unless its caller gives it up.
EveryCallReturns == \A r \in Requests : InFlight(r) ~> ~InFlight(r)

\* Once the last handle is dropped, the batcher and every session thread end.
ShutdownCompletes ==
  senders = {} ~> /\ phase \in {"exited", "dead"}
                  /\ \A w \in Workers : session[w] \in {"exited", "dead"}
-----------------------------------------------------------------------------
(***************************************************************************)
(* The server implements BatchService.  The current batch is made of the   *)
(* calls whose responders the batcher or one of its postprocess tasks      *)
(* holds; it is sealed when the collection loop has ended; a call that     *)
(* still preprocesses in infer() is not made yet.                          *)
(***************************************************************************)
CurrentBatch ==
  Range(batch_buffer) \cup Range(responders)
    \cup {t.responder : t \in postprocess_tasks}

FittingReplies(r) ==
  {Err(e) : e \in BatcherErrors \ {"preprocess", "postprocess"}}
    \cup (IF r \in PreErr \cup PrePanic THEN {Err("preprocess")}
          ELSE IF r \in PostErr THEN {Err("postprocess")}
          ELSE IF r \in PostPanic THEN {}
          ELSE {Ok(r)})
    \cup (IF r \in PostPanic \/ "batchPanic" \in Faults \/ NumSessions = 0
            THEN {Dropped} ELSE {})

Service == INSTANCE BatchService WITH
  Limit <- IF MaxBatch = 0 THEN 1 ELSE MaxBatch,
  Replies <- Reply \cup {None, Open, Dropped},
  Verdicts <- [r \in Requests |-> FittingReplies(r)],
  Waiting <- Open,
  NotMade <- None,
  Abandoned <- Dropped,
  MayCrash <- "batchPanic" \in Faults \/ NumSessions = 0,
  queue <- commands,
  batch <- CurrentBatch,
  sealed <- CurrentBatch # {} /\ phase \notin {"recv", "collect"},
  answer <- [r \in Requests |->
               IF caller[r] = "preprocessing" THEN None ELSE responder[r]]

\* Every step of the server is a step of the abstract service or leaves it as
\* it is: first come first gathered, one batch at a time, one fitting answer.
ImplementsService == Service!Spec

\* ... and whoever waits is served, by the fairness of the tasks and threads.
ImplementsFairService == Service!FairSpec
=============================================================================
