---------------------------- MODULE BatchService ----------------------------
(***************************************************************************)
(* What the server promises, without its tasks, threads and channels: the  *)
(* accepted calls wait in one queue; the oldest of them are gathered into  *)
(* one batch at a time, up to a limit; every call of the batch is answered *)
(* once, with a verdict that fits its own input; and only when all of them *)
(* are answered does the next batch begin.                                 *)
(***************************************************************************)
EXTENDS Integers, Sequences, FiniteSets, Functions

CONSTANTS
  Requests,
  Limit,     \* the largest batch
  Replies,   \* every answer there is
  Verdicts,  \* per request, the answers that fit its input
  Waiting,   \* the "answer" of a call that is accepted and not answered
  NotMade,   \* the "answer" of a call that is not accepted yet
  Abandoned, \* the answer of a call whose server went away
  MayCrash   \* whether the server may go away under its callers

VARIABLES
  queue,   \* the calls that are accepted and not in a batch, oldest first
  batch,   \* the calls of the current batch that are not answered
  sealed,  \* TRUE when the current batch admits no more calls
  answer   \* per call, its answer

serviceVars == <<queue, batch, sealed, answer>>

Init ==
  /\ queue = << >>
  /\ batch = {}
  /\ sealed = FALSE
  /\ answer = [r \in Requests |-> NotMade]

Accept(r) ==
  /\ answer[r] = NotMade
  /\ answer' = [answer EXCEPT ![r] = Waiting]
  /\ queue' = Append(queue, r)
  /\ UNCHANGED <<batch, sealed>>

\* The call never gets into the queue.
Refuse(r) ==
  /\ answer[r] = NotMade
  /\ answer' = [answer EXCEPT ![r] = Abandoned]
  /\ UNCHANGED <<queue, batch, sealed>>

Gather ==
  /\ queue # << >> /\ ~sealed /\ Cardinality(batch) < Limit
  /\ batch' = batch \cup {Head(queue)}
  /\ queue' = Tail(queue)
  /\ UNCHANGED <<sealed, answer>>

Seal ==
  /\ batch # {} /\ ~sealed
  /\ sealed' = TRUE
  /\ UNCHANGED <<queue, batch, answer>>

\* Some calls of the batch are answered; no call can join it any more.
Settle ==
  \E S \in (SUBSET batch) \ {{}} :
    /\ answer' \in [Requests -> Replies]
    /\ \A r \in Requests :
         IF r \in S THEN answer'[r] \in Verdicts[r] ELSE answer'[r] = answer[r]
    /\ batch' = batch \ S
    /\ sealed' = (batch' # {})
    /\ UNCHANGED queue

\* The server is gone: whoever waits in the queue learns that, and nothing else.
Crash ==
  /\ MayCrash /\ batch = {}
  /\ queue' = << >>
  /\ answer' = [r \in Requests |->
                  IF r \in Range(queue) THEN Abandoned ELSE answer[r]]
  /\ UNCHANGED <<batch, sealed>>

Next ==
  \/ \E r \in Requests : Accept(r) \/ Refuse(r)
  \/ Gather \/ Seal \/ Settle \/ Crash

Spec == Init /\ [][Next]_serviceVars

\* The service goes on for as long as somebody waits.
FairSpec == Spec /\ WF_serviceVars(Gather \/ Seal) /\ WF_serviceVars(Settle)
=============================================================================
