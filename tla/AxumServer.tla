----------------------------- MODULE AxumServer -----------------------------
(***************************************************************************)
(* examples/axum_server.rs: HTTP handlers that share one Server, and a     *)
(* main() that stops accepting on a signal and returns when the requests   *)
(* in flight have ended.                                                   *)
(*                                                                         *)
(* The Server is the abstract BatchService, which Superserve is shown to   *)
(* implement.  A request is one POST to /infer; its call of infer() is the *)
(* call of the same name.  GET /health always says "ok" and has no state.  *)
(***************************************************************************)
EXTENDS Integers, Sequences, FiniteSets, Functions

CONSTANTS
  Requests,
  BadBodies,  \* requests that Json<InferRequest> rejects
  MaxBatch,   \* max_batch_size
  MayCrash    \* whether the batcher may die

ASSUME AxumAssumption ==
  /\ BadBodies \subseteq Requests
  /\ MaxBatch \in Nat \ {0} /\ MayCrash \in BOOLEAN

VARIABLES
  main,  \* where main() is
  conn,  \* per request, what has become of its handler
  queue, batch, sealed, answer  \* the server

serverVars == <<queue, batch, sealed, answer>>
vars == <<main, conn, serverVars>>

Service == INSTANCE BatchService WITH
  Limit <- MaxBatch,
  Replies <- {"none", "waiting", "ok", "error", "abandoned"},
  Verdicts <- [r \in Requests |-> {"ok", "error"}],
  Waiting <- "waiting", NotMade <- "none", Abandoned <- "abandoned"

Ended == {"responded", "rejected", "panicked", "gone"}

TypeOK ==
  /\ main \in {"binding", "serving", "draining", "returned"}
  /\ conn \in [Requests -> {"none", "reading", "handling", "waiting"} \cup Ended]
  /\ answer \in [Requests -> {"none", "waiting", "ok", "error", "abandoned"}]
  /\ Range(queue) \cup batch \subseteq {r \in Requests : answer[r] = "waiting"}
  /\ Range(queue) \cap batch = {}

Init ==
  /\ main = "binding"
  /\ conn = [r \in Requests |-> "none"]
  /\ Service!Init

-----------------------------------------------------------------------------
(* main() and shutdown_signal(). *)

Bind ==
  /\ main = "binding"
  /\ main' \in {"serving", "returned"}
  /\ UNCHANGED <<conn, serverVars>>

\* Ctrl+C or SIGTERM.
Signal ==
  /\ main = "serving"
  /\ main' = "draining"
  /\ UNCHANGED <<conn, serverVars>>

\* Slip: a handler that panicked is never counted as ended.
InFlightWithPanicked(r) == conn[r] \in {"reading", "handling", "waiting", "panicked"}

InFlight(r) == conn[r] \in {"reading", "handling", "waiting"}

\* Slip: serve() without with_graceful_shutdown().
ReturnAtOnce ==
  /\ main = "draining"
  /\ main' = "returned"
  /\ UNCHANGED <<conn, serverVars>>

\* The runtime goes with main(), and the batcher with the runtime.
Return ==
  /\ main = "draining"
  /\ \A r \in Requests : ~InFlight(r)
  /\ main' = "returned"
  /\ UNCHANGED <<conn, serverVars>>

-----------------------------------------------------------------------------
(* infer_handler(). *)

Accept(r) ==
  /\ main = "serving" /\ conn[r] = "none"
  /\ conn' = [conn EXCEPT ![r] = "reading"]
  /\ UNCHANGED <<main, serverVars>>

\* Json<InferRequest> has what it needs to accept or to refuse the request.  That
\* is up to the client, and the wait for it has no timeout.
Read(r) ==
  /\ conn[r] = "reading"
  /\ conn' = [conn EXCEPT ![r] = "handling"]
  /\ UNCHANGED <<main, serverVars>>

Reject(r) ==
  /\ conn[r] = "handling" /\ r \in BadBodies
  /\ conn' = [conn EXCEPT ![r] = "rejected"]
  /\ UNCHANGED <<main, serverVars>>

\* infer() up to its second await.
Infer(r) ==
  /\ conn[r] = "handling" /\ r \notin BadBodies
  /\ conn' = [conn EXCEPT ![r] = "waiting"]
  /\ Service!Accept(r) \/ (MayCrash /\ Service!Refuse(r))
  /\ UNCHANGED main

Answered(r) == conn[r] = "waiting" /\ answer[r] # "waiting"

\* Slip: the error is taken for an output.
RespondAnyway(r) ==
  /\ Answered(r)
  /\ conn' = [conn EXCEPT ![r] = "responded"]
  /\ UNCHANGED <<main, serverVars>>

\* Slip: an error is not noticed.
RespondToOutput(r) ==
  /\ Answered(r) /\ answer[r] = "ok"
  /\ conn' = [conn EXCEPT ![r] = "responded"]
  /\ UNCHANGED <<main, serverVars>>

\* expect() panics for an error, and the connection is closed.
Respond(r) ==
  /\ Answered(r)
  /\ conn' = [conn EXCEPT ![r] = IF answer[r] = "ok" THEN "responded" ELSE "panicked"]
  /\ UNCHANGED <<main, serverVars>>

\* Slip: the call of a client that hangs up is forgotten where it waits.
DisconnectForgetting(r) ==
  /\ InFlight(r)
  /\ conn' = [conn EXCEPT ![r] = "gone"]
  /\ answer' = [answer EXCEPT ![r] = "none"]
  /\ UNCHANGED <<main, queue, batch, sealed>>

\* The client hangs up and the handler is dropped; a call that was queued stays.
Disconnect(r) ==
  /\ InFlight(r)
  /\ conn' = [conn EXCEPT ![r] = "gone"]
  /\ UNCHANGED <<main, serverVars>>

-----------------------------------------------------------------------------
Runs == main # "returned"

Collects == Runs /\ (Service!Gather \/ Service!Seal) /\ UNCHANGED <<main, conn>>
Answers == Runs /\ Service!Settle /\ UNCHANGED <<main, conn>>
Crashes == Runs /\ Service!Crash /\ UNCHANGED <<main, conn>>

Handler(r) == Reject(r) \/ Infer(r) \/ Respond(r)

Done == main = "returned" /\ UNCHANGED vars

Next ==
  \/ Bind \/ Signal \/ Return
  \/ \E r \in Requests : Accept(r) \/ Read(r) \/ Handler(r) \/ Disconnect(r)
  \/ Collects \/ Answers \/ Crashes
  \/ Done

Spec == Init /\ [][Next]_vars

(***************************************************************************)
(* A handler that has its body or its answer is polled, main() is polled,  *)
(* and the server is the fair one.  No client is fair: it may never send   *)
(* the rest of its body (Read), and it may stay connected all the same.    *)
(***************************************************************************)
Fairness ==
  /\ WF_vars(Bind) /\ WF_vars(Return)
  /\ \A r \in Requests : WF_vars(Handler(r))
  /\ WF_vars(Collects) /\ WF_vars(Answers)

FairSpec == Spec /\ Fairness
-----------------------------------------------------------------------------
\* When main() returns, and takes the batcher with it, nobody who is still
\* connected waits: what is lost in the queue or in a session belongs to clients
\* that hung up (with_graceful_shutdown()).
NobodyCutOff ==
  main = "returned" => \A r \in Requests :
    /\ ~InFlight(r)
    /\ answer[r] = "waiting" => conn[r] = "gone"

\* A client gets a response exactly for an output, and a closed connection only
\* for an error of its own call, whatever happens to the handlers of the others;
\* what is rejected never reaches the server (infer_handler()).
ResponsesFit ==
  \A r \in Requests :
    /\ conn[r] = "responded" => answer[r] = "ok"
    /\ conn[r] = "panicked" => answer[r] \in {"error", "abandoned"}
    /\ conn[r] \in {"none", "reading", "handling", "rejected"} => answer[r] = "none"

\* After a signal, once no client owes a body any more, main() returns, also with
\* clients that hung up and handlers that panicked.  A client that stalls holds it
\* open: neither the body (line 59) nor the draining (line 100) has a timeout.
SignalEndsMain ==
  (main = "draining" /\ \A r \in Requests : conn[r] # "reading") ~> main = "returned"

\* A handler that has its body ends, by a response, a rejection, a panic or its
\* client, whatever the others do: stall in their bodies, hang up or panic.
EveryHandlerEnds ==
  \A r \in Requests : conn[r] \in {"handling", "waiting"} ~> conn[r] \in Ended
=============================================================================
