----------------------------- MODULE AxumProofs -----------------------------
(***************************************************************************)
(* Proofs about AxumServer for any set of requests and any batch size,     *)
(* with and without a batcher that dies.                                   *)
(***************************************************************************)
EXTENDS AxumServer, TLAPS

\* A call waits in the queue once, for a handler that waits or is gone, and
\* before main() accepts connections there is no handler.
CallsHaveHandlers ==
  /\ queue \in Seq(Requests) /\ batch \in SUBSET Requests /\ sealed \in BOOLEAN
  /\ \A m, n \in DOMAIN queue : queue[m] = queue[n] => m = n
  /\ \A r \in Requests :
       /\ answer[r] = "waiting" => conn[r] \in {"waiting", "gone"}
       /\ conn[r] = "waiting" => answer[r] # "none"
  /\ main = "binding" => \A r \in Requests : conn[r] = "none"

AxumInv == TypeOK /\ CallsHaveHandlers /\ NobodyCutOff /\ ResponsesFit

\* Who is in the queue or in the batch of the service waits for its answer.
LEMMA QueuedWait ==
  ASSUME TypeOK, queue \in Seq(Requests)
  PROVE  /\ \A n \in DOMAIN queue : queue[n] \in Requests /\ answer[queue[n]] = "waiting"
         /\ \A n \in DOMAIN queue : queue[n] \notin batch
         /\ \A r \in batch : r \in Requests /\ answer[r] = "waiting"
  BY DEF TypeOK, Range

\* Nothing has happened before main() binds its port.
LEMMA AxumInitially == Init => AxumInv
<1> SUFFICES ASSUME Init PROVE AxumInv
  OBVIOUS
<1>1. /\ main = "binding" /\ queue = << >> /\ batch = {} /\ sealed = FALSE
      /\ conn = [r \in Requests |-> "none"] /\ answer = [r \in Requests |-> "none"]
  BY DEF Init, Service!Init
<1>2. TypeOK
  BY <1>1 DEF TypeOK, Range
<1>3. CallsHaveHandlers
  <2>4. queue \in Seq(Requests) /\ batch \in SUBSET Requests
    BY <1>1
  <2>1. sealed \in BOOLEAN
    BY <1>1, Zenon
  <2>2. DOMAIN queue = {}
    BY <1>1
  <2>3. \A r \in Requests : answer[r] = "none" /\ conn[r] = "none"
    BY <1>1
  <2> QED
    BY <2>1, <2>2, <2>3, <2>4 DEF CallsHaveHandlers
<1>4. NobodyCutOff /\ ResponsesFit
  BY <1>1 DEF NobodyCutOff, ResponsesFit
<1> QED
  BY <1>2, <1>3, <1>4 DEF AxumInv

\* Steps of main() leave handlers and server alone (lines 98-103).
LEMMA MainPreserves ==
  ASSUME AxumInv, Bind \/ Signal \/ Return
  PROVE  AxumInv'
<1>1. /\ UNCHANGED <<conn, queue, batch, sealed, answer>>
      /\ main \in {"binding", "serving", "draining"} /\ main' \in {"serving", "draining", "returned"}
      /\ main' = "returned" => \A r \in Requests : ~InFlight(r)
  BY DEF Bind, Signal, Return, serverVars, AxumInv, CallsHaveHandlers, InFlight
<1>2. TypeOK' /\ ResponsesFit' /\ CallsHaveHandlers'
  BY <1>1 DEF AxumInv, TypeOK, ResponsesFit, CallsHaveHandlers, Range
<1>3. NobodyCutOff'
  BY <1>1 DEF AxumInv, CallsHaveHandlers, NobodyCutOff, InFlight
<1> QED
  BY <1>2, <1>3 DEF AxumInv

\* Steps of a handler and its client that the server does not see (lines 57-70).
LEMMA HandlerPreserves ==
  ASSUME AxumInv, NEW r \in Requests,
         Accept(r) \/ Read(r) \/ Reject(r) \/ Respond(r) \/ Disconnect(r)
  PROVE  AxumInv'
<1>1. UNCHANGED <<main, queue, batch, sealed, answer>>
  BY DEF Accept, Read, Reject, Respond, Disconnect, serverVars
<1>2. /\ conn' = [conn EXCEPT ![r] = conn'[r]]
      /\ \/ main = "serving" /\ conn[r] = "none" /\ conn'[r] = "reading"
         \/ conn[r] = "reading" /\ conn'[r] = "handling"
         \/ conn[r] = "handling" /\ conn'[r] = "rejected"
         \/ Answered(r) /\ conn'[r] = "responded" /\ answer[r] = "ok"
         \/ Answered(r) /\ conn'[r] = "panicked" /\ answer[r] # "ok"
         \/ InFlight(r) /\ conn'[r] = "gone"
  BY DEF Accept, Read, Reject, Respond, Disconnect, AxumInv, TypeOK
<1>3. TypeOK'
  BY <1>1, <1>2 DEF AxumInv, TypeOK, Ended, Range
<1>4. CallsHaveHandlers'
  BY <1>1, <1>2 DEF AxumInv, TypeOK, CallsHaveHandlers, InFlight, Answered, ResponsesFit
<1>5. NobodyCutOff'
  BY <1>1, <1>2 DEF AxumInv, TypeOK, NobodyCutOff, InFlight, Answered
<1>6. ResponsesFit'
  BY <1>1, <1>2 DEF AxumInv, TypeOK, CallsHaveHandlers, ResponsesFit, InFlight, Answered
<1> QED
  BY <1>3, <1>4, <1>5, <1>6 DEF AxumInv

\* A call enters the queue with its handler, or finds no server (line 65).
LEMMA InferPreserves ==
  ASSUME AxumInv, NEW r \in Requests, Infer(r)
  PROVE  AxumInv'
<1> USE DEF AxumInv
<1>1. /\ main' = main /\ conn[r] = "handling" /\ conn' = [conn EXCEPT ![r] = "waiting"]
      /\ answer[r] = "none" /\ batch' = batch /\ sealed' = sealed
      /\ \/ answer' = [answer EXCEPT ![r] = "waiting"] /\ queue' = Append(queue, r)
         \/ answer' = [answer EXCEPT ![r] = "abandoned"] /\ queue' = queue
  BY DEF Infer, Service!Accept, Service!Refuse
<1>2. main # "returned"
  BY <1>1 DEF NobodyCutOff, InFlight
<1>3. /\ \A n \in DOMAIN queue : queue[n] # r
      /\ r \notin batch
  BY <1>1, QueuedWait DEF CallsHaveHandlers
<1>4. CallsHaveHandlers'
  <2>1. \A m, n \in DOMAIN queue' : queue'[m] = queue'[n] => m = n
    <3>1. CASE queue' = queue
      BY <3>1 DEF CallsHaveHandlers
    <3>2. CASE queue' = Append(queue, r)
      <4>1. queue \in Seq(Requests)
        BY DEF CallsHaveHandlers
      <4>2. \A n \in DOMAIN queue' : \/ n \in DOMAIN queue /\ queue'[n] = queue[n]
                                     \/ n = Len(queue) + 1 /\ queue'[n] = r
        BY <3>2, <4>1
      <4> QED
        BY <4>2, <1>3 DEF CallsHaveHandlers
    <3> QED
      BY <3>1, <3>2, <1>1
  <2>2. queue' \in Seq(Requests) /\ batch' \in SUBSET Requests /\ sealed' \in BOOLEAN
    BY <1>1 DEF CallsHaveHandlers
  <2>3. \A q \in Requests : /\ answer'[q] = "waiting" => conn'[q] \in {"waiting", "gone"}
                            /\ conn'[q] = "waiting" => answer'[q] # "none"
    BY <1>1 DEF CallsHaveHandlers, TypeOK
  <2>4. main' # "binding"
    BY <1>1 DEF CallsHaveHandlers
  <2> QED
    BY <2>1, <2>2, <2>3, <2>4 DEF CallsHaveHandlers
<1>5. TypeOK'
  <2>1. Range(queue') \subseteq Range(queue) \cup {r}
    BY <1>1 DEF Range, CallsHaveHandlers
  <2>2. Range(queue') \cap batch' = {}
    BY <2>1, <1>1, <1>3 DEF TypeOK
  <2>3. Range(queue') \cup batch' \subseteq {q \in Requests : answer'[q] = "waiting"}
    <3>1. CASE queue' = queue /\ answer' = [answer EXCEPT ![r] = "abandoned"]
      BY <3>1, <1>1, <1>3 DEF TypeOK, Range
    <3>2. CASE answer' = [answer EXCEPT ![r] = "waiting"]
      BY <3>2, <2>1, <1>1 DEF TypeOK
    <3> QED
      BY <3>1, <3>2, <1>1
  <2>4. conn' \in [Requests -> {"none", "reading", "handling", "waiting"} \cup Ended]
    BY <1>1 DEF TypeOK
  <2>5. answer' \in [Requests -> {"none", "waiting", "ok", "error", "abandoned"}]
    BY <1>1 DEF TypeOK
  <2> QED
    BY <1>1, <2>2, <2>3, <2>4, <2>5 DEF TypeOK
<1>6. NobodyCutOff' /\ ResponsesFit'
  BY <1>1, <1>2 DEF NobodyCutOff, ResponsesFit, TypeOK
<1> QED
  BY <1>4, <1>5, <1>6

\* The server answers calls that wait, and no other.
LEMMA ServerPreserves ==
  ASSUME AxumInv, Collects \/ Answers \/ Crashes
  PROVE  AxumInv'
<1> USE DEF AxumInv
<1>1. main' = main /\ conn' = conn /\ main # "returned" /\ queue \in Seq(Requests)
  BY DEF Collects, Answers, Crashes, Runs, CallsHaveHandlers
<1>2. SUFFICES /\ queue' \in Seq(Requests) /\ batch' \in SUBSET Requests /\ sealed' \in BOOLEAN
               /\ \A m, n \in DOMAIN queue' : queue'[m] = queue'[n] => m = n
               /\ answer' \in [Requests -> {"none", "waiting", "ok", "error", "abandoned"}]
               /\ \A q \in Requests :
                    \/ answer'[q] = answer[q]
                    \/ answer[q] = "waiting" /\ answer'[q] \in {"ok", "error", "abandoned"}
               /\ \A n \in DOMAIN queue' : answer'[queue'[n]] = "waiting" /\ queue'[n] \notin batch'
               /\ \A q \in batch' : answer'[q] = "waiting"
  <2>1. TypeOK'
    BY <1>1, <1>2 DEF TypeOK, Range
  <2>2. CallsHaveHandlers'
    BY <1>1, <1>2 DEF TypeOK, CallsHaveHandlers
  <2>3. NobodyCutOff' /\ ResponsesFit'
    BY <1>1, <1>2 DEF TypeOK, CallsHaveHandlers, NobodyCutOff, ResponsesFit
  <2> QED
    BY <2>1, <2>2, <2>3
<1>3. CASE Service!Gather
  <2>1. /\ queue # << >> /\ batch' = batch \cup {Head(queue)} /\ queue' = Tail(queue)
        /\ sealed' = sealed /\ answer' = answer
    BY <1>3 DEF Service!Gather
  <2>2. /\ queue' \in Seq(Requests) /\ Head(queue) = queue[1] /\ 1 \in DOMAIN queue
        /\ \A n \in DOMAIN queue' : n + 1 \in DOMAIN queue /\ queue'[n] = queue[n + 1]
        /\ DOMAIN queue' \subseteq Nat \ {0}
    BY <1>1, <2>1
  <2>3. \A n \in DOMAIN queue' : queue'[n] # queue[1]
    BY <2>2 DEF CallsHaveHandlers
  <2>4. \A m, n \in DOMAIN queue' : queue'[m] = queue'[n] => m = n
    BY <2>2 DEF CallsHaveHandlers
  <2> QED
    BY <1>1, <2>1, <2>2, <2>3, <2>4, QueuedWait DEF TypeOK, CallsHaveHandlers
<1>4. CASE Service!Seal
  BY <1>1, <1>4, QueuedWait DEF Service!Seal, TypeOK, CallsHaveHandlers
<1>5. CASE Service!Settle
  <2>1. PICK S \in (SUBSET batch) \ {{}} :
          /\ answer' \in [Requests -> {"none", "waiting", "ok", "error", "abandoned"}]
          /\ \A r \in Requests :
               IF r \in S THEN answer'[r] \in {"ok", "error"} ELSE answer'[r] = answer[r]
          /\ batch' = batch \ S /\ sealed' = (batch' # {}) /\ queue' = queue
    BY <1>5 DEF Service!Settle
  <2> QED
    BY <1>1, <2>1, QueuedWait DEF TypeOK, CallsHaveHandlers
<1>6. CASE Service!Crash
  <2>1. /\ queue' = << >> /\ batch' = batch /\ sealed' = sealed /\ batch = {}
        /\ answer' = [r \in Requests |->
                        IF r \in Range(queue) THEN "abandoned" ELSE answer[r]]
    BY <1>6 DEF Service!Crash, Service!Range, Range
  <2>2. \A r \in Range(queue) : answer[r] = "waiting"
    BY DEF TypeOK
  <2> QED
    BY <2>1, <2>2 DEF TypeOK, CallsHaveHandlers
<1> QED
  BY <1>3, <1>4, <1>5, <1>6 DEF Collects, Answers, Crashes

\* Every step of the handlers, of main() and of the service preserves the invariant.
LEMMA AxumStep == AxumInv /\ [Next]_vars => AxumInv'
<1> SUFFICES ASSUME AxumInv, [Next]_vars PROVE AxumInv'
  OBVIOUS
<1>1. CASE Bind \/ Signal \/ Return
  BY <1>1, MainPreserves
<1>2. ASSUME NEW r \in Requests, Accept(r) \/ Read(r) \/ Reject(r) \/ Respond(r) \/ Disconnect(r)
      PROVE  AxumInv'
  BY <1>2, HandlerPreserves
<1>3. ASSUME NEW r \in Requests, Infer(r) PROVE AxumInv'
  BY <1>3, InferPreserves
<1>4. CASE Collects \/ Answers \/ Crashes
  BY <1>4, ServerPreserves
<1>5. CASE UNCHANGED vars
  BY <1>5 DEF vars, serverVars, AxumInv, TypeOK, CallsHaveHandlers, NobodyCutOff,
              ResponsesFit, InFlight, Range
<1> QED
  BY <1>1, <1>2, <1>3, <1>4, <1>5 DEF Next, Handler, Done

\* Whatever the clients, the signal and the service do, a queued call has a handler
\* that waits or was dropped, and main() returns only without handlers.
THEOREM AxumInvariance == Spec => []AxumInv
  BY AxumInitially, AxumStep, PTL DEF Spec

\* Types, and that the server waits for accepted calls only.
THEOREM AxumTypeOK == Spec => []TypeOK
<1>1. AxumInv => TypeOK
  BY DEF AxumInv
<1> QED
  BY <1>1, AxumInvariance, PTL

\* The graceful shutdown of main() cuts off no client that is connected.
THEOREM NobodyCutOffHolds == Spec => []NobodyCutOff
<1>1. AxumInv => NobodyCutOff
  BY DEF AxumInv
<1> QED
  BY <1>1, AxumInvariance, PTL

\* Responses are outputs, and panics are errors of the handler's own call.
THEOREM ResponsesFitHold == Spec => []ResponsesFit
<1>1. AxumInv => ResponsesFit
  BY DEF AxumInv
<1> QED
  BY <1>1, AxumInvariance, PTL
=============================================================================
