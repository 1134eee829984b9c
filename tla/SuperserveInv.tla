--------------------------- MODULE SuperserveInv ---------------------------
(***************************************************************************)
(* The inductive invariant behind the safety properties of Superserve.     *)
(***************************************************************************)
EXTENDS Superserve

PreFails == PreErr \cup PrePanic
BatchLimit == IF MaxBatch = 0 THEN 1 ELSE MaxBatch

\* Each piece of the batcher's data exists in its own phases only.
DataInPhase ==
  /\ phase = "collect" <=> batch_buffer # << >>
  /\ phase \in {"preprocess", "batch", "await"} <=> responders # << >>
  /\ results # << >> => phase = "preprocess"
  /\ preprocess_tasks # {} => phase = "preprocess"
  /\ preprocessed_items # << >> => phase = "batch"
  /\ postprocess_tasks # {} => phase = "post"

\* A thread holds a message exactly while it is busy.
BusyHolds == \A w \in Workers : session[w] = "busy" <=> current[w] # << >>

\* The message the batcher waits for.
Awaited == [id |-> result.id, batched_tensor |-> responders]

Idle(w) == current[w] = << >> /\ worker_queue[w] = << >>
HoldsAwaited(w) ==
  /\ phase = "await" /\ result.state = "pending"
  /\ \/ current[w] = << Awaited >> /\ worker_queue[w] = << >>
     \/ current[w] = << >> /\ worker_queue[w] = << Awaited >>

\* SingleFlight, with the place of the message.
OneFlight ==
  /\ \A w \in Workers : Idle(w) \/ HoldsAwaited(w)
  /\ \A v, w \in Workers : v # w => Idle(v) \/ Idle(w)

\* Every row, item or task belongs to the caller at the same place.
RowsMatch ==
  /\ \A i \in DOMAIN results :
       results[i] = responders[i] /\ results[i] \notin PreFails
  /\ \A t \in preprocess_tasks :
       t.idx \in DOMAIN responders /\ t.input = responders[t.idx]
  /\ phase = "batch" => preprocessed_items = responders
  /\ phase = "await" /\ result.state = "ok"
       /\ Len(result.outputs) = Len(responders) => result.outputs = responders
  /\ \A t \in postprocess_tasks : t.raw_output = t.responder

\* An input that fails in preprocess() never gets past it; an index without a
\* result and without a task belongs to such an input.
FailuresFiltered ==
  /\ PreprocessOnInfer =>
       /\ \A i \in DOMAIN commands : commands[i] \notin PreFails
       /\ \A i \in DOMAIN batch_buffer : batch_buffer[i] \notin PreFails
  /\ phase = "preprocess" =>
       \A i \in DOMAIN responders :
         \/ i \in DOMAIN results
         \/ \E t \in preprocess_tasks : t.idx = i
         \/ responders[i] \in PreFails
  /\ phase \in {"batch", "await"} =>
       \A i \in DOMAIN responders : responders[i] \notin PreFails
  /\ \A t \in postprocess_tasks : t.responder \notin PreFails

\* The size of a batch, from the first command to the session.
WithinLimits ==
  /\ Len(batch_buffer) <= BatchLimit
  /\ Len(responders) <= BatchLimit

IInv ==
  /\ TypeOK /\ DataInPhase /\ BusyHolds /\ OneFlight /\ RowsMatch
  /\ FailuresFiltered /\ WithinLimits /\ AnswerFitsInput
-----------------------------------------------------------------------------
(***************************************************************************)
(* Where every unanswered caller is, and what every end of a channel says  *)
(* about the task that held it.                                            *)
(***************************************************************************)

\* An open responder is in infer(), in the command channel, or in the batch.
Placed ==
  \A r \in Requests : responder[r] = Open =>
    \/ caller[r] = "preprocessing"
    \/ r \in Range(commands) \cup CurrentBatch

\* A call keeps the handle it borrows.
HandlesHeld ==
  \A r \in Requests :
    /\ InFlight(r) => HandleOf[r] \in senders
    /\ caller[r] = "preprocessing" => PreprocessOnInfer

\* The batcher lets go of its ends only when it ends, and leaves its loop only
\* when there is nobody left to serve.
EndsTogether ==
  /\ ~command_rx => phase \in {"exited", "dead"}
  /\ ~worker_txs => phase \in {"exited", "dead"}
  /\ phase = "exited" => senders = {} /\ commands = << >>

\* A receiver is gone only with its thread, and a thread stops only after the
\* batcher.
ThreadEndsKnown ==
  \A w \in Workers :
    /\ w \notin worker_rx => session[w] \in {"exited", "dead"}
    /\ session[w] = "exited" => ~worker_txs

\* What a failed result says about the session that sent it.
ResultCauses ==
  /\ result.state = "closed" =>
       \E w \in Workers : session[w] \in {"unwinding", "dead"}
  /\ phase = "await" /\ result.state = "ok" =>
       Len(result.outputs) = Len(responders) \/ "count" \in Faults

FateInv ==
  /\ Placed /\ HandlesHeld /\ EndsTogether /\ ThreadEndsKnown /\ ResultCauses
  /\ NoCallerForgotten /\ ErrorsHaveCause

-----------------------------------------------------------------------------
(***************************************************************************)
(* A call is in one place at a time, and nobody there has been answered:   *)
(* what the refinement of BatchService needs to know besides.              *)
(***************************************************************************)
OncePlaced ==
  /\ IsInjective(commands) /\ IsInjective(batch_buffer)
  /\ IsInjective(responders)
  /\ \A t, u \in postprocess_tasks : t.responder = u.responder => t = u
  /\ Range(commands) \cap CurrentBatch = {}

HeldUnanswered ==
  \A r \in Requests :
    /\ r \in Range(commands) \cup CurrentBatch =>
         responder[r] = Open /\ caller[r] \notin {"idle", "preprocessing"}
    /\ caller[r] = "idle" => responder[r] = None

CrashHasCause ==
  phase \in {"unwinding", "dead"} => "batchPanic" \in Faults \/ NumSessions = 0

OnceInv == OncePlaced /\ HeldUnanswered /\ CrashHasCause
=============================================================================
