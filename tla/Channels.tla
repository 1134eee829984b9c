------------------------------ MODULE Channels ------------------------------
(***************************************************************************)
(* The channels that connect the parts of ort-superserve, and the words    *)
(* all parts use to speak about requests and replies:                      *)
(*                                                                         *)
(*   command channel   many Server handles  -->  the batcher (kanal)       *)
(*   responder         the batcher  -->  one infer() call (oneshot)        *)
(*   worker channels   the batcher  -->  one session thread each (kanal)   *)
(*   result channel    the session thread  -->  the batcher (oneshot)      *)
(*                                                                         *)
(* A request stands for one call of infer() together with its input; a     *)
(* row of a tensor is named by the request whose input it was made from,   *)
(* so that a row delivered to the wrong caller is visible.                 *)
(***************************************************************************)
EXTENDS Integers, Sequences, FiniteSets, Functions

CONSTANTS
  Requests,      \* the infer() calls that may be made
  NumSessions,   \* config.num_sessions; the code does not forbid 0
  PreprocessOnInfer, \* config.preprocess_on_infer
  PreErr, PrePanic,  \* inputs whose preprocess() fails, or panics
  PostErr, PostPanic,\* rows whose postprocess() fails, or panics
  Faults,        \* what else may go wrong in a run, see FaultKinds
  DiscardOnClose \* whether kanal drops what is queued with the last receiver

FaultKinds ==
  {"initErr", "batchErr", "batchPanic", "inferErr", "workerPanic", "count"}

ASSUME RequestsAssumption == IsFiniteSet(Requests)
ASSUME SessionsAssumption == NumSessions \in Nat
ASSUME InputsAssumption ==
  PreErr \cup PrePanic \cup PostErr \cup PostPanic \subseteq Requests
ASSUME SwitchAssumption ==
  /\ PreprocessOnInfer \in BOOLEAN
  /\ DiscardOnClose \in BOOLEAN
  /\ Faults \subseteq FaultKinds

Workers == 1 .. NumSessions

(***************************************************************************)
(* What a oneshot responder holds.  "open": a live sender, nothing sent;   *)
(* "dropped": the sender was dropped without sending.  The other tags are  *)
(* the Result<O> that was sent: "ok" with the row it was computed from, or *)
(* the error, named after the message the batcher puts in it.              *)
(***************************************************************************)
BatcherErrors ==
  {"insufficient", "preprocess", "batching", "unavailable", "inference",
   "worker_closed", "mismatch", "postprocess"}

Reply == [tag : {"ok"} \cup BatcherErrors, row : SUBSET Requests]
Ok(q) == [tag |-> "ok", row |-> {q}]
Err(e) == [tag |-> e, row |-> {}]

None == [tag |-> "none", row |-> {}]
Open == [tag |-> "open", row |-> {}]
Dropped == [tag |-> "dropped", row |-> {}]

\* A batch on its way to a session; "id" is the identity of its result_tx.
WorkerMessage == [id : Nat, batched_tensor : Seq(Requests)]

VARIABLES
  senders,      \* the Server handles that still hold a command_tx
  commands,     \* requests queued in the command channel, oldest first
  command_rx,   \* TRUE while the batcher's receiver exists
  responder,    \* per request, its oneshot
  worker_txs,   \* TRUE while the batcher holds the worker senders
  worker_rx,    \* the workers whose receiver exists
  worker_queue, \* per worker, the messages queued for it
  result        \* the oneshot the batcher created last

commandChannel == <<senders, commands, command_rx>>
workerChannels == <<worker_txs, worker_rx, worker_queue>>
channelVars == <<commandChannel, responder, workerChannels, result>>

ResultStates == {"none", "pending", "ok", "err", "closed"}

ChannelsTypeOK ==
  /\ commands \in Seq(Requests)
  /\ command_rx \in BOOLEAN
  /\ responder \in [Requests -> Reply \cup {None, Open, Dropped}]
  /\ worker_txs \in BOOLEAN
  /\ worker_rx \subseteq Workers
  /\ worker_queue \in [Workers -> Seq(WorkerMessage)]
  /\ result \in [id : Nat, state : ResultStates, outputs : Seq(Requests)]

ChannelsInit ==
  /\ commands = << >>
  /\ command_rx = TRUE
  /\ responder = [r \in Requests |-> None]
  /\ worker_txs = TRUE
  /\ worker_rx = Workers
  /\ worker_queue = [w \in Workers |-> << >>]
  /\ result = [id |-> 0, state |-> "none", outputs |-> << >>]

\* recv() on the command channel reports "closed" only once it is drained.
CommandsClosed == commands = << >> /\ senders = {}

\* responder.send(reply) for every request of the set S.
Send(S, reply) == [r \in Requests |-> IF r \in S THEN reply ELSE responder[r]]

\* result_tx.send, or its drop: nothing happens unless the batcher still
\* waits on that very oneshot.
Resolve(id, state, outputs) ==
  result' = IF result.id = id /\ result.state = "pending"
              THEN [id |-> id, state |-> state, outputs |-> outputs]
              ELSE result
=============================================================================
