------------------------------ MODULE Callers -------------------------------
(***************************************************************************)
(* The public face of the server (src/server.rs): Server handles that are  *)
(* cloned and shut down, and the infer() calls made through them.  infer() *)
(* borrows its handle, so a handle cannot be dropped under a running call. *)
(***************************************************************************)
EXTENDS Channels

CONSTANTS
  Handles,   \* Server values; the identity of a clone may be used again
  Primary,   \* the handle start() returns
  HandleOf   \* the handle through which each request is made

ASSUME HandlesAssumption ==
  /\ Primary \in Handles
  /\ HandleOf \in [Requests -> Handles]

VARIABLES
  caller,  \* per request, where its infer() call is
  outcome  \* per request, what infer() returned

callerVars == <<caller, outcome>>

CallerStates == {"idle", "preprocessing", "waiting", "returned", "gone"}

\* Errors infer() makes itself: lines 257, 262 and 265 of src/server.rs.
ServerClosed == [tag |-> "server_closed", row |-> {}]
ResponseClosed == [tag |-> "response_closed", row |-> {}]

CallersTypeOK ==
  /\ senders \subseteq Handles
  /\ caller \in [Requests -> CallerStates]
  /\ outcome \in [Requests -> Reply \cup {None, ServerClosed, ResponseClosed}]

CallersInit ==
  /\ senders = {Primary}
  /\ caller = [r \in Requests |-> "idle"]
  /\ outcome = [r \in Requests |-> None]

InFlight(r) == caller[r] \in {"preprocessing", "waiting"}
\* Slip: a call that preprocesses does not keep its handle.
BorrowedWhileWaiting(h) ==
  \E r \in Requests : HandleOf[r] = h /\ caller[r] = "waiting"

Borrowed(h) == \E r \in Requests : HandleOf[r] = h /\ InFlight(r)

CloneServer(h, g) ==
  /\ h \in senders
  /\ g \notin senders /\ g # Primary
  /\ senders' = senders \cup {g}
  /\ UNCHANGED <<commands, command_rx, responder, workerChannels, result,
                 callerVars>>

\* Slip: shutdown() closes the channel for every handle.
ShutdownForAll(h) ==
  /\ h \in senders /\ ~Borrowed(h)
  /\ senders' = senders \ {h}
  /\ command_rx' = FALSE
  /\ UNCHANGED <<commands, responder, workerChannels, result, callerVars>>

Shutdown(h) ==
  /\ h \in senders /\ ~Borrowed(h)
  /\ senders' = senders \ {h}
  /\ UNCHANGED <<commands, command_rx, responder, workerChannels, result,
                 callerVars>>

(***************************************************************************)
(* command_tx.send(): the channel is unbounded, so the send completes at   *)
(* once.  It fails only when the batcher's receiver is gone; the command   *)
(* and the responder in it are then dropped.                               *)
(***************************************************************************)
SendCommand(r) ==
  \/ /\ command_rx
     /\ commands' = Append(commands, r)
     /\ responder' = [responder EXCEPT ![r] = Open]
     /\ caller' = [caller EXCEPT ![r] = "waiting"]
     /\ UNCHANGED outcome
  \/ /\ ~command_rx
     /\ responder' = [responder EXCEPT ![r] = Dropped]
     /\ caller' = [caller EXCEPT ![r] = "returned"]
     /\ outcome' = [outcome EXCEPT ![r] = ServerClosed]
     /\ UNCHANGED commands

\* infer() up to its first await: the raw input is queued, or preprocess()
\* is started in the caller's own task.
Infer(r) ==
  /\ caller[r] = "idle"
  /\ HandleOf[r] \in senders
  /\ IF PreprocessOnInfer
       THEN /\ caller' = [caller EXCEPT ![r] = "preprocessing"]
            /\ responder' = [responder EXCEPT ![r] = Open]
            /\ UNCHANGED <<commands, outcome>>
       ELSE SendCommand(r)
  /\ UNCHANGED <<senders, command_rx, workerChannels, result>>

\* input.preprocess().await? in infer(): an error returns, a panic unwinds the
\* caller's task, and in both cases the responder is dropped with it.
PreprocessInInfer(r) ==
  /\ caller[r] = "preprocessing"
  /\ \/ /\ r \notin PreErr \cup PrePanic
        /\ SendCommand(r)
     \/ /\ r \in PreErr
        /\ caller' = [caller EXCEPT ![r] = "returned"]
        /\ outcome' = [outcome EXCEPT ![r] = Err("preprocess")]
        /\ responder' = [responder EXCEPT ![r] = Dropped]
        /\ UNCHANGED commands
     \/ /\ r \in PrePanic
        /\ caller' = [caller EXCEPT ![r] = "gone"]
        /\ responder' = [responder EXCEPT ![r] = Dropped]
        /\ UNCHANGED <<commands, outcome>>
  /\ UNCHANGED <<senders, command_rx, workerChannels, result>>

\* response.await.context("Response channel closed")?
Respond(r) ==
  /\ caller[r] = "waiting"
  /\ responder[r] # Open
  /\ caller' = [caller EXCEPT ![r] = "returned"]
  /\ outcome' = [outcome EXCEPT ![r] =
                   IF responder[r] = Dropped THEN ResponseClosed
                                             ELSE responder[r]]
  /\ UNCHANGED channelVars

\* The caller drops the future of infer() while it is suspended (a client
\* that disconnects).  What was queued stays queued.
Cancel(r) ==
  /\ InFlight(r)
  /\ caller' = [caller EXCEPT ![r] = "gone"]
  /\ responder' = [responder EXCEPT ![r] =
                     IF caller[r] = "preprocessing" THEN Dropped ELSE @]
  /\ UNCHANGED <<outcome, commandChannel, workerChannels, result>>

CallersStep(r) == PreprocessInInfer(r) \/ Respond(r)

CallersNext ==
  \/ \E h, g \in Handles : CloneServer(h, g)
  \/ \E h \in Handles : Shutdown(h)
  \/ \E r \in Requests : Infer(r) \/ CallersStep(r) \/ Cancel(r)
=============================================================================
