-------------------------- MODULE SuperserveProofs --------------------------
(***************************************************************************)
(* Theorems about Superserve: the type invariant, and the safety           *)
(* properties that follow from the inductive invariant IInv.               *)
(***************************************************************************)
EXTENDS SuperserveInv, DataLemmas, SequenceTheorems

USE DEF channelVars, commandChannel, workerChannels, callerVars, workerVars,
        batchVars, batcherVars, vars

-----------------------------------------------------------------------------
(* Types of the operators. *)

\* What may be in a responder.
Content == Reply \cup {None, Open, Dropped}

\* What the batcher and the callers put into a oneshot has its type.
LEMMA ReplyTypes ==
  /\ None \in Content /\ Open \in Content /\ Dropped \in Content
  /\ \A e \in BatcherErrors : Err(e) \in Content /\ Err(e) \in Reply
  /\ \A r \in Requests : Ok(r) \in Content
BY DEF Content, None, Open, Dropped, Err, Ok, Reply

\* The elements of a sequence are of its type.
LEMMA RangeType ==
  ASSUME NEW T, NEW s \in Seq(T)
  PROVE  Range(s) \subseteq T
BY DEF Range

\* The two filtered lists of FinishPreprocess have one entry per result.
LEMMA FilteredLists ==
  ASSUME BatcherTypeOK
  PROVE  LET n == Cardinality(DOMAIN results)
             e == InOrder(DOMAIN results)
         IN  /\ n \in Nat
             /\ n <= Len(responders)
             /\ e \in [1 .. n -> DOMAIN results]
             /\ DOMAIN results # {} => n > 0
             /\ ItemsInOrder = [k \in 1 .. n |-> results[e[k]]]
             /\ KeptResponders = [k \in 1 .. n |-> responders[e[k]]]
             /\ ItemsInOrder \in Seq(Requests)
             /\ KeptResponders \in Seq(Requests)
             /\ Len(KeptResponders) = n
<1>. DEFINE n == Cardinality(DOMAIN results)
            e == InOrder(DOMAIN results)
<1>1. /\ DOMAIN responders = 1 .. Len(responders)
      /\ Len(responders) \in Nat
      /\ DOMAIN results \in SUBSET (1 .. Len(responders))
  BY DEF BatcherTypeOK
<1>2. /\ n \in Nat /\ n <= Len(responders)
      /\ e \in [1 .. n -> DOMAIN results]
      /\ DOMAIN results # {} => n > 0
  BY <1>1, InOrderLists
<1>. HIDE DEF n, e
<1>3. DOMAIN e = 1 .. n /\ \A k \in 1 .. n : e[k] \in DOMAIN results
  BY <1>2
<1>4. /\ ItemsInOrder = [k \in 1 .. n |-> results[e[k]]]
      /\ KeptResponders = [k \in 1 .. n |-> responders[e[k]]]
  BY <1>3 DEF ItemsInOrder, KeptResponders, e
<1>5. \A k \in 1 .. n : results[e[k]] \in Requests /\ responders[e[k]] \in Requests
  BY <1>1, <1>3 DEF BatcherTypeOK
<1>6. /\ ItemsInOrder \in Seq(Requests)
      /\ KeptResponders \in Seq(Requests)
      /\ Len(KeptResponders) = n
  BY <1>2, <1>4, <1>5
<1>. QED  BY <1>2, <1>4, <1>6 DEF n, e

-----------------------------------------------------------------------------
(* Type correctness: one lemma per component, one step per action. *)

\* The server begins with values of their types.
LEMMA InitTypeOK == Init => TypeOK
BY HandlesAssumption, BatcherAssumption, ReplyTypes
DEF Init, TypeOK, ChannelsInit, CallersInit, WorkerPoolInit, BatcherInit,
    ChannelsTypeOK, CallersTypeOK, WorkerPoolTypeOK, BatcherTypeOK, Content,
    CallerStates, SessionStates, Phases, ResultStates

\* Callers and handles preserve types.
LEMMA CallerTypeOK ==
  ASSUME TypeOK, CallerAction
  PROVE  TypeOK'
<1>. USE DEF TypeOK, ChannelsTypeOK, CallersTypeOK, CallerAction, CallerStates
<1>. SUFFICES (ChannelsTypeOK /\ CallersTypeOK)'
  BY DEF WorkerPoolTypeOK, BatcherTypeOK
<1>1. ASSUME NEW h \in Handles, NEW g \in Handles, CloneServer(h, g)
      PROVE  (ChannelsTypeOK /\ CallersTypeOK)'
  BY <1>1 DEF CloneServer
<1>2. ASSUME NEW h \in Handles, Shutdown(h)
      PROVE  (ChannelsTypeOK /\ CallersTypeOK)'
  BY <1>2 DEF Shutdown
<1>3. ASSUME NEW r \in Requests, SendCommand(r)
      PROVE  /\ commands' \in Seq(Requests)
             /\ responder' \in [Requests -> Content]
             /\ caller' \in [Requests -> CallerStates]
             /\ outcome' \in [Requests ->
                                Reply \cup {None, ServerClosed, ResponseClosed}]
  <2>1. CASE command_rx
    <3>1. commands' = Append(commands, r) /\ UNCHANGED outcome
      BY <1>3, <2>1 DEF SendCommand
    <3>2. /\ responder' = [responder EXCEPT ![r] = Open]
          /\ caller' = [caller EXCEPT ![r] = "waiting"]
      BY <1>3, <2>1 DEF SendCommand
    <3>. QED  BY <3>1, <3>2, ReplyTypes DEF Content
  <2>2. CASE ~command_rx
    <3>1. /\ responder' = [responder EXCEPT ![r] = Dropped]
          /\ caller' = [caller EXCEPT ![r] = "returned"]
      BY <1>3, <2>2 DEF SendCommand
    <3>2. outcome' = [outcome EXCEPT ![r] = ServerClosed] /\ UNCHANGED commands
      BY <1>3, <2>2 DEF SendCommand
    <3>. QED  BY <3>1, <3>2, ReplyTypes DEF Content
  <2>. QED  BY <2>1, <2>2
<1>4. ASSUME NEW r \in Requests, Infer(r)
      PROVE  (ChannelsTypeOK /\ CallersTypeOK)'
  BY <1>3, <1>4, ReplyTypes DEF Infer, Content
<1>5. ASSUME NEW r \in Requests, PreprocessInInfer(r)
      PROVE  (ChannelsTypeOK /\ CallersTypeOK)'
  <2>1. Err("preprocess") \in Reply
    BY ReplyTypes DEF BatcherErrors
  <2>2. CASE SendCommand(r) /\ UNCHANGED <<senders, command_rx, workerChannels, result>>
    BY <1>3, <2>2 DEF Content
  <2>3. CASE /\ caller' = [caller EXCEPT ![r] = "returned"]
             /\ outcome' = [outcome EXCEPT ![r] = Err("preprocess")]
             /\ responder' = [responder EXCEPT ![r] = Dropped]
             /\ UNCHANGED <<commands, senders, command_rx, workerChannels, result>>
    BY <2>1, <2>3, ReplyTypes DEF Content
  <2>4. CASE /\ caller' = [caller EXCEPT ![r] = "gone"]
             /\ responder' = [responder EXCEPT ![r] = Dropped]
             /\ UNCHANGED <<commands, outcome, senders, command_rx, workerChannels, result>>
    BY <2>4, ReplyTypes DEF Content
  <2>. QED  BY <1>5, <2>2, <2>3, <2>4 DEF PreprocessInInfer
<1>6. ASSUME NEW r \in Requests, Respond(r)
      PROVE  (ChannelsTypeOK /\ CallersTypeOK)'
  BY <1>6 DEF Respond
<1>7. ASSUME NEW r \in Requests, Cancel(r)
      PROVE  (ChannelsTypeOK /\ CallersTypeOK)'
  BY <1>7, ReplyTypes DEF Cancel, Content
<1>. QED  BY <1>1, <1>2, <1>4, <1>5, <1>6, <1>7 DEF CallersNext, CallersStep

\* What a busy thread works on.
LEMMA BusyWork ==
  ASSUME IInv, NEW w \in Workers, session[w] = "busy"
  PROVE  /\ current[w] = << Awaited >> /\ worker_queue[w] = << >>
         /\ current[w][1] = Awaited
         /\ Awaited.id = result.id /\ Awaited.batched_tensor = responders
         /\ Awaited \in WorkerMessage
         /\ phase = "await" /\ result.state = "pending"
         /\ responders # << >>
         /\ \A v \in Workers \ {w} : Idle(v)
<1>1. current[w] # << >>
  BY DEF IInv, BusyHolds
<1>2. HoldsAwaited(w) /\ \A v \in Workers \ {w} : Idle(v)
  BY <1>1 DEF IInv, OneFlight, Idle
<1>3. current[w] = << Awaited >> /\ worker_queue[w] = << >>
  BY <1>1, <1>2 DEF HoldsAwaited
<1>4. phase = "await" /\ result.state = "pending" /\ responders # << >>
  BY <1>2 DEF HoldsAwaited, IInv, DataInPhase
<1>5. Awaited.id = result.id /\ Awaited.batched_tensor = responders
  BY DEF Awaited
<1>6. Awaited \in WorkerMessage
  BY DEF Awaited, WorkerMessage, IInv, TypeOK, ChannelsTypeOK, BatcherTypeOK
<1>. QED  BY <1>2, <1>3, <1>4, <1>5, <1>6

\* Session threads preserve types.
LEMMA WorkerTypeOK ==
  ASSUME IInv, WorkerAction
  PROVE  TypeOK'
<1>. USE DEF TypeOK, ChannelsTypeOK, WorkerPoolTypeOK, WorkerAction,
             SessionStates, ResultStates, OtherChannels
<1>. DEFINE Results == [id : Nat, state : ResultStates, outputs : Seq(Requests)]
<1>. TypeOK
  BY DEF IInv
<1>. SUFFICES (ChannelsTypeOK /\ WorkerPoolTypeOK)' /\ UNCHANGED senders
  BY DEF CallersTypeOK, BatcherTypeOK
<1>0. ASSUME NEW id \in Nat, NEW state \in ResultStates,
             NEW outputs \in Seq(Requests), Resolve(id, state, outputs)
      PROVE  result' \in Results
  <2>1. [id |-> id, state |-> state, outputs |-> outputs] \in Results
    OBVIOUS
  <2>. QED  BY <1>0, <2>1 DEF Resolve
<1>1. PICK w \in Workers : WorkerStep(w)
  BY DEF WorkerPoolNext
<1>2. CASE BuildSession(w) \/ BuildFails(w) \/ Retry(w)
  BY <1>2 DEF BuildSession, BuildFails, Retry
<1>3. CASE Receive(w)
  BY <1>3 DEF Receive
<1>4. CASE WorkerClosed(w)
  BY <1>4 DEF WorkerClosed
<1>5. CASE WorkerGone(w)
  <2>1. UNCHANGED result \/ Resolve(result.id, "closed", << >>)
    BY <1>5 DEF WorkerGone
  <2>2. result.id \in Nat /\ "closed" \in ResultStates /\ << >> \in Seq(Requests)
    OBVIOUS
  <2>3. result' \in Results
    BY <2>1, <2>2, <1>0
  <2>4. worker_queue' \in [Workers -> Seq(WorkerMessage)]
    <3>1. << >> \in Seq(WorkerMessage)
      OBVIOUS
    <3>2. \/ UNCHANGED worker_queue
          \/ worker_queue' = [worker_queue EXCEPT ![w] = << >>]
      BY <1>5 DEF WorkerGone
    <3>. QED  BY <3>1, <3>2
  <2>. QED  BY <1>5, <2>3, <2>4 DEF WorkerGone
<1>6. ASSUME NEW state \in ResultStates, NEW outputs \in Seq(Requests),
             session[w] = "busy", Finish(w, state, outputs)
      PROVE  (ChannelsTypeOK /\ WorkerPoolTypeOK)' /\ UNCHANGED senders
  <2>1. current[w][1].id \in Nat
    BY <1>6, BusyWork
  <2>2. result' \in Results
    BY <1>6, <1>0, <2>1 DEF Finish
  <2>. QED  BY <1>6, <2>2 DEF Finish
<1>7. ASSUME session[w] = "busy"
      PROVE  LET rows == current[w][1].batched_tensor
             IN  /\ rows \in Seq(Requests)
                 /\ Tail(rows) \in Seq(Requests)
                 /\ Append(rows, Head(rows)) \in Seq(Requests)
  <2>1. /\ current[w][1].batched_tensor = responders
        /\ responders \in Seq(Requests) /\ responders # << >>
    BY <1>7, BusyWork DEF BatcherTypeOK
  <2>. QED  BY <2>1
<1>8. CASE ProcessOk(w)
  BY <1>8, <1>6, <1>7 DEF ProcessOk
<1>9. CASE ProcessOtherCount(w)
  BY <1>9, <1>6, <1>7 DEF ProcessOtherCount
<1>10. CASE ProcessErr(w)
  <2>1. "err" \in ResultStates /\ << >> \in Seq(Requests)
    OBVIOUS
  <2>2. session[w] = "busy" /\ Finish(w, "err", << >>)
    BY <1>10 DEF ProcessErr
  <2>. QED  BY <2>1, <2>2, <1>6
<1>11. CASE WorkerPanics(w)
  <2>1. current[w][1].id \in Nat
    BY <1>11, BusyWork DEF WorkerPanics
  <2>2. result' \in Results
    <3>1. "closed" \in ResultStates /\ << >> \in Seq(Requests)
      OBVIOUS
    <3>2. Resolve(current[w][1].id, "closed", << >>)
      BY <1>11 DEF WorkerPanics
    <3>. QED  BY <2>1, <3>1, <3>2, <1>0
  <2>. QED  BY <1>11, <2>2 DEF WorkerPanics
<1>. QED  BY <1>1, <1>2, <1>3, <1>4, <1>5, <1>8, <1>9, <1>10, <1>11
          DEF WorkerStep, Process

\* The batcher preserves types.
LEMMA BatcherTypeCorrect ==
  ASSUME IInv, BatcherAction
  PROVE  TypeOK'
<1>. USE DEF TypeOK, ChannelsTypeOK, BatcherTypeOK, BatcherAction, Phases,
             ResultStates
<1>. DEFINE Goal == (ChannelsTypeOK /\ BatcherTypeOK)' /\ UNCHANGED senders
            Responders == [Requests -> Content]
<1>. TypeOK /\ DataInPhase
  BY DEF IInv
<1>0. SUFFICES Goal
  BY DEF CallersTypeOK, WorkerPoolTypeOK
<1>. HIDE DEF Goal
<1>1. ASSUME NEW S, NEW reply \in Content, responder' = Send(S, reply)
      PROVE  responder' \in Responders
  BY <1>1 DEF Send, Content
<1>2. ASSUME TakeCommand, phase' \in Phases  PROVE Goal
  BY <1>2 DEF TakeCommand, Goal
<1>3. CASE FirstCommand \/ Collect
  BY <1>2, <1>3 DEF FirstCommand, Collect, MayCollect
<1>4. CASE CommandsEnd
  BY <1>4 DEF CommandsEnd, Goal
<1>5. ASSUME NEW lost, EndCollection(lost), phase = "collect",
             commands' \in Seq(Requests)
      PROVE  Goal
  <2>1. responder' \in Responders
    BY <1>5, ReplyTypes DEF EndCollection, Refusal, BatcherErrors, Content
  <2>2. results = << >> /\ preprocess_tasks = {}
    BY <1>5 DEF DataInPhase
  <2>3. CASE Len(batch_buffer) < MinBatch
    BY <1>5, <2>1, <2>3 DEF EndCollection, Goal, Content
  <2>4. CASE ~(Len(batch_buffer) < MinBatch)
    <3>1. /\ responders' = batch_buffer /\ phase' = "preprocess"
          /\ batch_buffer' = << >>
      BY <1>5, <2>4 DEF EndCollection
    <3>2. preprocess_tasks' \subseteq PreprocessTask
      BY <1>5, <2>2, <2>4 DEF EndCollection, PreprocessTask
    <3>3. /\ DOMAIN results' \subseteq DOMAIN responders'
          /\ results' \in [DOMAIN results' -> Requests]
      <4>1. results' = batch_buffer \/ results' = << >>
        BY <1>5, <2>2, <2>4 DEF EndCollection
      <4>2. CASE results' = batch_buffer
        BY <3>1, <4>2
      <4>3. CASE results' = << >>
        BY <3>1, <4>3
      <4>. QED  BY <4>1, <4>2, <4>3
    <3>. QED  BY <1>5, <2>1, <3>1, <3>2, <3>3 DEF EndCollection, Goal, Content
  <2>. QED  BY <2>3, <2>4
<1>6. CASE Full \/ Timeout \/ TimeoutLoses \/ ClosedWhileCollecting
  <2>1. phase = "collect" /\ commands' \in Seq(Requests)
    <3>1. phase = "collect"
      BY <1>6 DEF Full, Timeout, TimeoutLoses, ClosedWhileCollecting, MayCollect
    <3>2. commands' = commands \/ (commands # << >> /\ commands' = Tail(commands))
      BY <1>6 DEF Full, Timeout, TimeoutLoses, ClosedWhileCollecting
    <3>3. commands # << >> => Tail(commands) \in Seq(Requests)
      OBVIOUS
    <3>. QED  BY <3>1, <3>2, <3>3
  <2>2. \E lost : EndCollection(lost)
    BY <1>6 DEF Full, Timeout, TimeoutLoses, ClosedWhileCollecting
  <2>. QED  BY <2>1, <2>2, <1>5
<1>7. ASSUME NEW t \in preprocess_tasks, JoinPreprocess(t)
      PROVE  Goal
  <2>1. t.idx \in DOMAIN responders /\ t.input \in Requests
    BY <1>7 DEF IInv, RowsMatch, PreprocessTask
  <2>2. /\ DOMAIN results' \subseteq DOMAIN responders
        /\ results' \in [DOMAIN results' -> Requests]
    BY <1>7, <2>1 DEF JoinPreprocess
  <2>. QED  BY <1>7, <2>2 DEF JoinPreprocess, Goal
<1>8. ASSUME responders' = << >>, results' = << >>,
             preprocessed_items' = << >>, phase' \in Phases,
             UNCHANGED <<batch_buffer, preprocess_tasks, postprocess_tasks>>,
             dispatch_index' \in 0 .. IndexMod - 1
      PROVE  BatcherTypeOK'
  BY <1>8
<1>9. CASE FinishPreprocess
  <2>1. responder' \in Responders
    BY <1>9, <1>1, ReplyTypes DEF FinishPreprocess, FailureReply, BatcherErrors
  <2>2. CASE DOMAIN results = {}
    BY <1>8, <1>9, <2>1, <2>2 DEF FinishPreprocess, ForgetBatch, Goal, Content
  <2>3. CASE DOMAIN results # {}
    <3>1. ItemsInOrder \in Seq(Requests) /\ KeptResponders \in Seq(Requests)
      BY FilteredLists
    <3>2. /\ phase' = "batch" /\ results' = << >>
          /\ preprocessed_items' = ItemsInOrder /\ responders' = KeptResponders
          /\ UNCHANGED <<batch_buffer, preprocess_tasks, postprocess_tasks,
                         dispatch_index, commandChannel, workerChannels, result>>
      BY <1>9, <2>3 DEF FinishPreprocess
    <3>3. BatcherTypeOK'
      BY <3>1, <3>2
    <3>4. ChannelsTypeOK' /\ UNCHANGED senders
      BY <2>1, <3>2 DEF Content
    <3>. QED  BY <3>3, <3>4 DEF Goal
  <2>. QED  BY <2>2, <2>3
<1>10. ASSUME NEW e \in BatcherErrors, FailBatch(e),
              UNCHANGED <<commandChannel, workerChannels, result>>
       PROVE  Goal
  <2>1. responder' \in Responders
    BY <1>10, <1>1, ReplyTypes DEF FailBatch
  <2>. QED  BY <1>8, <1>10, <2>1 DEF FailBatch, ForgetBatch, Goal, Content
<1>11. CASE BatchFails
  BY <1>10, <1>11 DEF BatchFails, BatcherErrors
<1>12. CASE BatchPanics
  <2>1. responder' \in Responders
    BY <1>12, <1>1, ReplyTypes DEF BatchPanics
  <2>. QED  BY <1>8, <1>12, <2>1 DEF BatchPanics, ForgetBatch, Goal, Content
<1>13. CASE BatcherGone
  <2>1. responder' \in Responders /\ commands' \in Seq(Requests)
    <3>1. CASE DiscardOnClose
      <4>1. commands' = << >> /\ responder' = Send(Range(commands), Dropped)
        BY <1>13, <3>1 DEF BatcherGone
      <4>. QED  BY <4>1, <1>1, ReplyTypes
    <3>2. CASE ~DiscardOnClose
      BY <1>13, <3>2 DEF BatcherGone, Content
    <3>. QED  BY <3>1, <3>2
  <2>. QED  BY <1>13, <2>1 DEF BatcherGone, Goal, Content
<1>14. NextIndex \in 0 .. IndexMod - 1
  BY BatcherAssumption DEF NextIndex
<1>15. CASE Dispatch
  <2>. DEFINE m == [id |-> result.id + 1, batched_tensor |-> preprocessed_items]
  <2>1. m \in WorkerMessage
    BY DEF WorkerMessage
  <2>2. worker_queue' = [worker_queue EXCEPT ![WorkerIdx] =
                           Append(worker_queue[WorkerIdx], m)]
    BY <1>15 DEF Dispatch
  <2>3. worker_queue' \in [Workers -> Seq(WorkerMessage)]
    <3>1. WorkerIdx \in Workers
      BY <1>15 DEF Dispatch
    <3>2. Append(worker_queue[WorkerIdx], m) \in Seq(WorkerMessage)
      BY <2>1, <3>1
    <3>. HIDE DEF m
    <3>. QED  BY <2>2, <3>1, <3>2
  <2>4. result' \in [id : Nat, state : ResultStates, outputs : Seq(Requests)]
    BY <1>15 DEF Dispatch
  <2>. HIDE DEF m
  <2>5. BatcherTypeOK'
    <3>1. /\ preprocessed_items' = << >> /\ phase' = "await"
          /\ dispatch_index' = NextIndex
          /\ UNCHANGED <<batch_buffer, responders, preprocess_tasks, results,
                         postprocess_tasks>>
      BY <1>15 DEF Dispatch
    <3>. QED  BY <1>14, <3>1
  <2>6. UNCHANGED <<commandChannel, responder, worker_txs, worker_rx>>
    BY <1>15 DEF Dispatch
  <2>. QED  BY <2>3, <2>4, <2>5, <2>6 DEF Goal
<1>16. CASE WorkerUnavailable
  <2>1. responder' \in Responders
    BY <1>16, <1>1, ReplyTypes DEF WorkerUnavailable, BatcherErrors
  <2>2. results = << >>
    BY <1>16 DEF WorkerUnavailable, DataInPhase
  <2>3. BatcherTypeOK'
    BY <1>8, <1>14, <1>16, <2>2 DEF WorkerUnavailable
  <2>4. ChannelsTypeOK' /\ UNCHANGED senders
    BY <1>16, <2>1 DEF WorkerUnavailable, Content
  <2>. QED  BY <2>3, <2>4 DEF Goal
<1>17. CASE ResultFails
  BY <1>10, <1>17 DEF ResultFails, BatcherErrors
<1>18. CASE ResultOk
  <2>1. postprocess_tasks' \subseteq PostprocessTask
    BY <1>18 DEF ResultOk, PostprocessTask
  <2>2. results = << >>
    BY <1>18 DEF ResultOk, Awaiting, DataInPhase
  <2>. QED  BY <1>18, <2>1, <2>2 DEF ResultOk, Goal
<1>19. ASSUME NEW t \in postprocess_tasks, Postprocess(t)
       PROVE  Goal
  <2>1. PostprocessVerdict(t.raw_output) \in Content
    BY ReplyTypes DEF PostprocessVerdict, PostprocessTask, BatcherErrors
  <2>2. responder' \in Responders
    BY <1>1, <1>19, <2>1 DEF Postprocess
  <2>. QED  BY <1>19, <2>2 DEF Postprocess, Goal, Content
<1>20. CASE FinishPostprocess
  BY <1>20 DEF FinishPostprocess, Goal
<1>. QED  BY <1>3, <1>4, <1>6, <1>7, <1>9, <1>11, <1>12, <1>13, <1>15, <1>16,
             <1>17, <1>18, <1>19, <1>20
          DEF BatcherNext, Collecting, Preprocessing, Dispatching, Answering

-----------------------------------------------------------------------------
(* The inductive invariant is preserved: the callers. *)

\* What one call does to the commands and to its own responder.
CallEffect ==
  /\ commands' = commands
     \/ \E r \in Requests : /\ commands' = Append(commands, r)
                            /\ PreprocessOnInfer => r \notin PreFails
  /\ UNCHANGED responder
     \/ \E r \in Requests : \E reply \in {Open, Dropped} :
          responder' = [responder EXCEPT ![r] = reply]

\* That is all a caller can do to the batcher.
LEMMA CallerEffects ==
  ASSUME IInv, CallerAction
  PROVE  CallEffect
<1>. USE DEF CallerAction
<1>. responder \in [Requests -> Content]
  BY DEF IInv, TypeOK, ChannelsTypeOK, Content
<1>1. ASSUME NEW r \in Requests, SendCommand(r),
             PreprocessOnInfer => r \notin PreFails
      PROVE  CallEffect
  BY <1>1 DEF SendCommand, CallEffect
<1>2. CASE \E h, g \in Handles : CloneServer(h, g)
  BY <1>2 DEF CloneServer, CallEffect
<1>3. CASE \E h \in Handles : Shutdown(h)
  BY <1>3 DEF Shutdown, CallEffect
<1>4. ASSUME NEW r \in Requests, Infer(r)
      PROVE  CallEffect
  <2>1. CASE PreprocessOnInfer
    BY <1>4, <2>1 DEF Infer, CallEffect
  <2>2. CASE ~PreprocessOnInfer
    BY <1>1, <1>4, <2>2 DEF Infer
  <2>. QED  BY <2>1, <2>2
<1>5. ASSUME NEW r \in Requests, PreprocessInInfer(r)
      PROVE  CallEffect
  <2>1. CASE r \notin PreErr \cup PrePanic /\ SendCommand(r)
    BY <1>1, <2>1 DEF PreFails
  <2>2. CASE /\ responder' = [responder EXCEPT ![r] = Dropped]
             /\ UNCHANGED commands
    BY <2>2 DEF CallEffect
  <2>. QED  BY <1>5, <2>1, <2>2 DEF PreprocessInInfer
<1>6. ASSUME NEW r \in Requests, Respond(r)
      PROVE  CallEffect
  BY <1>6 DEF Respond, CallEffect
<1>7. ASSUME NEW r \in Requests, Cancel(r)
      PROVE  CallEffect
  <2>1. CASE caller[r] = "preprocessing"
    BY <1>7, <2>1 DEF Cancel, CallEffect
  <2>2. CASE caller[r] # "preprocessing"
    <3>1. responder' = responder
      BY <1>7, <2>2 DEF Cancel
    <3>. QED  BY <1>7, <3>1 DEF Cancel, CallEffect
  <2>. QED  BY <2>1, <2>2
<1>. QED  BY <1>2, <1>3, <1>4, <1>5, <1>6, <1>7 DEF CallersNext, CallersStep

\* A responder that gets no answer, or an answer about the server and not
\* about the input, keeps AnswerFitsInput.
Unrelated(reply) == reply.tag \notin {"ok", "preprocess", "postprocess"}

\* Which replies these are.
LEMMA UnrelatedReplies ==
  /\ Unrelated(None) /\ Unrelated(Open) /\ Unrelated(Dropped)
  /\ \A e \in BatcherErrors :
       Unrelated(Err(e)) \/ e \in {"preprocess", "postprocess"}
BY DEF Unrelated, None, Open, Dropped, Err, BatcherErrors

\* Callers and handles preserve the invariant.
LEMMA CallerPreserves ==
  ASSUME IInv, CallerAction
  PROVE  IInv'
<1>1. TypeOK'
  BY CallerTypeOK DEF IInv
<1>2. UNCHANGED <<batcherVars, workerVars, workerChannels, result>>
  BY DEF CallerAction, CallersNext, CallersStep, CloneServer, Shutdown, Infer,
         PreprocessInInfer, Respond, Cancel
<1>3. (DataInPhase /\ BusyHolds)'
  BY <1>2 DEF IInv, DataInPhase, BusyHolds
<1>4. OneFlight'
  BY <1>2 DEF IInv, OneFlight, Idle, HoldsAwaited, Awaited
<1>5. (RowsMatch /\ WithinLimits)'
  BY <1>2 DEF IInv, RowsMatch, WithinLimits
<1>6. FailuresFiltered'
  <2>1. PreprocessOnInfer =>
          \A i \in DOMAIN commands' : commands'[i] \notin PreFails
    <3>1. commands \in Seq(Requests)
      BY DEF IInv, TypeOK, ChannelsTypeOK
    <3>2. ASSUME NEW r \in Requests, commands' = Append(commands, r),
                 r \notin PreFails, PreprocessOnInfer, NEW i \in DOMAIN commands'
          PROVE  commands'[i] \notin PreFails
      BY <3>1, <3>2 DEF IInv, FailuresFiltered
    <3>. QED  BY <3>2, CallerEffects DEF CallEffect, IInv, FailuresFiltered
  <2>. QED  BY <1>2, <2>1 DEF IInv, FailuresFiltered
<1>7. AnswerFitsInput'
  <2>1. responder \in [Requests -> Content]
    BY DEF IInv, TypeOK, ChannelsTypeOK, Content
  <2>2. Open.tag = "open" /\ Dropped.tag = "dropped"
    BY DEF Open, Dropped
  <2>. QED  BY <2>1, <2>2, CallerEffects DEF CallEffect, IInv, AnswerFitsInput
<1>. QED  BY <1>1, <1>3, <1>4, <1>5, <1>6, <1>7 DEF IInv

-----------------------------------------------------------------------------
(* The inductive invariant is preserved: the session threads. *)

\* Where the work of a thread may be, from its state.
LEMMA WorkerFlight ==
  ASSUME IInv, NEW w \in Workers
  PROVE  /\ current \in [Workers -> Seq(WorkerMessage)]
         /\ worker_queue \in [Workers -> Seq(WorkerMessage)]
         /\ session \in [Workers -> SessionStates]
         /\ session[w] # "busy" => current[w] = << >>
         /\ Idle(w) \/ HoldsAwaited(w)
         /\ ~Idle(w) => \A v \in Workers \ {w} : Idle(v)
<1>1. /\ current \in [Workers -> Seq(WorkerMessage)]
      /\ worker_queue \in [Workers -> Seq(WorkerMessage)]
      /\ session \in [Workers -> SessionStates]
  BY DEF IInv, TypeOK, ChannelsTypeOK, WorkerPoolTypeOK
<1>2. session[w] # "busy" => current[w] = << >>
  BY DEF IInv, BusyHolds
<1>3. OneFlight
  BY DEF IInv
<1>. QED  BY <1>1, <1>2, <1>3 DEF OneFlight

\* What the step of a thread leaves alone.
LEMMA WorkerFrame ==
  ASSUME WorkerAction
  PROVE  UNCHANGED <<batcherVars, callerVars, commandChannel, responder>>
BY DEF WorkerAction, WorkerPoolNext, WorkerStep, Process, BuildSession,
       BuildFails, Retry, Receive, WorkerClosed, ProcessOk, ProcessOtherCount,
       ProcessErr, Finish, WorkerPanics, WorkerGone, OtherChannels

\* When no thread has work, it does not matter what the batcher does.
LEMMA NoFlight ==
  ASSUME \A w \in Workers : Idle(w)'
  PROVE  OneFlight'
BY DEF OneFlight

\* The parts of the invariant that speak of the threads and their results.
ThreadParts ==
  /\ BusyHolds /\ OneFlight
  /\ phase = "await" /\ result.state = "ok"
       /\ Len(result.outputs) = Len(responders) => result.outputs = responders

\* A thread that ends its message resolves the one result that is awaited.
LEMMA ThreadEnds ==
  ASSUME IInv, WorkerAction, NEW w \in Workers, session[w] = "busy",
         NEW s \in SessionStates \ {"busy"}, session' = [session EXCEPT ![w] = s],
         current' = [current EXCEPT ![w] = << >>], UNCHANGED worker_queue,
         NEW state \in ResultStates, NEW outputs \in Seq(Requests),
         Resolve(current[w][1].id, state, outputs),
         outputs = responders \/ Len(outputs) # Len(responders) \/ state # "ok"
  PROVE  ThreadParts'
<1>1. UNCHANGED <<phase, responders>>
  BY WorkerFrame
<1>2. /\ current \in [Workers -> Seq(WorkerMessage)]
      /\ session \in [Workers -> SessionStates]
  BY WorkerFlight
<1>3. /\ worker_queue[w] = << >> /\ current[w][1].id = result.id
      /\ result.state = "pending" /\ \A v \in Workers \ {w} : Idle(v)
  BY BusyWork
<1>4. BusyHolds'
  BY <1>2 DEF IInv, BusyHolds
<1>5. \A v \in Workers : Idle(v)'
  BY <1>2, <1>3 DEF Idle
<1>6. result' = [id |-> result.id, state |-> state, outputs |-> outputs]
  BY <1>3 DEF Resolve
<1>7. result'.state = state /\ result'.outputs = outputs
  BY <1>6
<1>. QED  BY <1>1, <1>4, <1>5, <1>7, NoFlight DEF ThreadParts

\* Every step of a thread keeps one batch in flight, with its callers' rows.
LEMMA WorkerThreadParts ==
  ASSUME IInv, WorkerAction
  PROVE  ThreadParts'
<1>1. UNCHANGED <<batcherVars, callerVars, commandChannel, responder>>
  BY WorkerFrame
<1>2. ThreadParts
  BY DEF ThreadParts, IInv, RowsMatch
<1>3. PICK w \in Workers : WorkerStep(w)
  BY DEF WorkerAction, WorkerPoolNext
<1>4. /\ current \in [Workers -> Seq(WorkerMessage)]
      /\ worker_queue \in [Workers -> Seq(WorkerMessage)]
      /\ session \in [Workers -> SessionStates]
  BY WorkerFlight, <1>3
<1>5. ASSUME session[w] # "busy", NEW s \in SessionStates \ {"busy"},
             session' = [session EXCEPT ![w] = s],
             UNCHANGED <<current, worker_queue, result>>
      PROVE  ThreadParts'
  <2>1. BusyHolds'
    BY <1>2, <1>4, <1>5 DEF ThreadParts, BusyHolds
  <2>2. OneFlight'
    BY <1>1, <1>2, <1>5 DEF ThreadParts, OneFlight, Idle, HoldsAwaited, Awaited
  <2>. QED  BY <1>1, <1>2, <1>5, <2>1, <2>2 DEF ThreadParts
<1>6. CASE BuildSession(w) \/ BuildFails(w) \/ Retry(w) \/ WorkerClosed(w)
  BY <1>5, <1>6
  DEF BuildSession, BuildFails, Retry, WorkerClosed, SessionStates
<1>7. CASE Receive(w)
  <2>1. /\ session[w] = "idle" /\ worker_queue[w] # << >>
        /\ session' = [session EXCEPT ![w] = "busy"]
        /\ current' = [current EXCEPT ![w] = << Head(worker_queue[w]) >>]
        /\ worker_queue' = [worker_queue EXCEPT ![w] = Tail(worker_queue[w])]
        /\ UNCHANGED result
    BY <1>7 DEF Receive
  <2>2. HoldsAwaited(w) /\ current[w] = << >>
        /\ \A v \in Workers \ {w} : Idle(v)
    BY <2>1, WorkerFlight DEF Idle
  <2>3. worker_queue[w] = << Awaited >>
    BY <2>1, <2>2 DEF HoldsAwaited
  <2>4. Head(worker_queue[w]) = Awaited /\ Tail(worker_queue[w]) = << >>
    BY <2>3
  <2>5. BusyHolds'
    BY <1>2, <1>4, <2>1 DEF ThreadParts, BusyHolds
  <2>6. HoldsAwaited(w)' /\ \A v \in Workers \ {w} : Idle(v)'
    <3>1. Awaited' = Awaited
      BY <1>1, <2>1 DEF Awaited
    <3>2. current'[w] = << Awaited >> /\ worker_queue'[w] = << >>
      BY <1>4, <2>1, <2>4
    <3>3. \A v \in Workers \ {w} : Idle(v)'
      BY <1>4, <2>1, <2>2 DEF Idle
    <3>. QED  BY <1>1, <2>1, <2>2, <3>1, <3>2, <3>3 DEF HoldsAwaited
  <2>. QED  BY <1>1, <1>2, <2>1, <2>5, <2>6 DEF ThreadParts, OneFlight
<1>8. CASE ProcessOk(w)
  <2>1. /\ current[w][1].batched_tensor = responders
        /\ responders \in Seq(Requests)
    BY <1>8, BusyWork DEF ProcessOk, IInv, TypeOK, BatcherTypeOK
  <2>. QED  BY <1>8, <2>1, ThreadEnds
            DEF ProcessOk, Finish, SessionStates, ResultStates
<1>9. CASE ProcessOtherCount(w)
  <2>1. /\ current[w][1].batched_tensor = responders
        /\ responders \in Seq(Requests) /\ responders # << >>
    BY <1>9, BusyWork DEF ProcessOtherCount, IInv, TypeOK, BatcherTypeOK
  <2>2. PICK outputs \in {Tail(responders),
                          Append(responders, Head(responders))} :
          Finish(w, "ok", outputs)
    BY <1>9, <2>1 DEF ProcessOtherCount
  <2>3. outputs \in Seq(Requests) /\ Len(outputs) # Len(responders)
    BY <2>1, <2>2
  <2>. QED  BY <1>9, <2>2, <2>3, ThreadEnds
            DEF ProcessOtherCount, Finish, SessionStates, ResultStates
<1>10. ASSUME NEW state \in {"err", "closed"}, NEW s \in {"idle", "unwinding"},
              session[w] = "busy", session' = [session EXCEPT ![w] = s],
              current' = [current EXCEPT ![w] = << >>], UNCHANGED worker_queue,
              Resolve(current[w][1].id, state, << >>)
       PROVE  ThreadParts'
  <2>1. << >> \in Seq(Requests)
    OBVIOUS
  <2>. QED  BY <1>10, <2>1, ThreadEnds DEF SessionStates, ResultStates
<1>11. CASE ProcessErr(w)
  BY <1>10, <1>11 DEF ProcessErr, Finish
<1>12. CASE WorkerPanics(w)
  BY <1>10, <1>12 DEF WorkerPanics
<1>13. CASE WorkerGone(w)
  <2>1. session[w] = "unwinding" /\ session' = [session EXCEPT ![w] = "dead"]
        /\ UNCHANGED current
    BY <1>13 DEF WorkerGone
  <2>2. CASE UNCHANGED <<worker_queue, result>>
    BY <1>5, <2>1, <2>2 DEF SessionStates
  <2>3. CASE ~UNCHANGED <<worker_queue, result>>
    <3>1. worker_queue' = [worker_queue EXCEPT ![w] = << >>]
          /\ (UNCHANGED result \/ Resolve(result.id, "closed", << >>))
      BY <1>13, <2>3 DEF WorkerGone
    <3>2. worker_queue[w] # << >>
      BY <1>4, <1>13, <2>3 DEF WorkerGone
    <3>3. \A v \in Workers : Idle(v)'
      <4>1. current[w] = << >> /\ \A v \in Workers \ {w} : Idle(v)
        BY <2>1, <3>2, WorkerFlight DEF Idle
      <4>. QED  BY <1>4, <2>1, <3>1, <4>1 DEF Idle
    <3>4. BusyHolds'
      BY <1>2, <1>4, <2>1 DEF ThreadParts, BusyHolds
    <3>5. result' = result \/ result'.state = "closed"
      BY <3>1 DEF Resolve
    <3>. QED  BY <1>1, <1>2, <3>3, <3>4, <3>5, NoFlight DEF ThreadParts
  <2>. QED  BY <2>2, <2>3
<1>. QED  BY <1>3, <1>6, <1>7, <1>8, <1>9, <1>11, <1>12, <1>13
          DEF WorkerStep, Process

\* Session threads preserve the invariant.
LEMMA WorkerPreserves ==
  ASSUME IInv, WorkerAction
  PROVE  IInv'
<1>1. TypeOK'
  BY WorkerTypeOK
<1>2. UNCHANGED <<batcherVars, callerVars, commandChannel, responder>>
  BY WorkerFrame
<1>3. (DataInPhase /\ FailuresFiltered /\ WithinLimits /\ AnswerFitsInput)'
  BY <1>2 DEF IInv, DataInPhase, FailuresFiltered, WithinLimits, AnswerFitsInput
<1>4. ThreadParts'
  BY WorkerThreadParts
<1>5. RowsMatch'
  BY <1>2, <1>4 DEF IInv, RowsMatch, ThreadParts
<1>. QED  BY <1>1, <1>3, <1>4, <1>5 DEF IInv, ThreadParts

-----------------------------------------------------------------------------
(* The inductive invariant is preserved: the batcher. *)

\* Only Dispatch gives work to a thread; it does so when no thread has any.
LEMMA BatcherOneFlight ==
  ASSUME IInv, BatcherAction
  PROVE  (BusyHolds /\ OneFlight)'
<1>. USE DEF BatcherAction
<1>1. SUFFICES OneFlight'
  BY DEF IInv, BusyHolds
<1>2. ASSUME UNCHANGED worker_queue, phase # "await" \/ result.state # "pending"
      PROVE  OneFlight'
  <2>1. \A w \in Workers : Idle(w)
    BY <1>2 DEF IInv, OneFlight, HoldsAwaited
  <2>2. \A w \in Workers : Idle(w)'
    BY <1>2, <2>1 DEF Idle
  <2>. QED  BY <2>2, NoFlight
<1>3. CASE Dispatch
  <2>1. /\ WorkerIdx \in Workers
        /\ worker_queue \in [Workers -> Seq(WorkerMessage)]
        /\ result.id + 1 \in Nat
    BY <1>3 DEF Dispatch, IInv, TypeOK, ChannelsTypeOK
  <2>2. \A w \in Workers : Idle(w)
    BY <1>3 DEF Dispatch, IInv, OneFlight, HoldsAwaited
  <2>3. preprocessed_items = responders
    BY <1>3 DEF Dispatch, IInv, RowsMatch
  <2>4. result' = [id |-> result.id + 1, state |-> "pending", outputs |-> << >>]
        /\ UNCHANGED <<responders, current>> /\ phase' = "await"
    BY <1>3 DEF Dispatch
  <2>5. Awaited' = [id |-> result.id + 1, batched_tensor |-> preprocessed_items]
    BY <2>3, <2>4 DEF Awaited
  <2>6. worker_queue' = [worker_queue EXCEPT ![WorkerIdx] =
                           Append(worker_queue[WorkerIdx], Awaited')]
    BY <1>3, <2>5 DEF Dispatch
  <2>7. worker_queue'[WorkerIdx] = << Awaited' >>
    <3>1. worker_queue[WorkerIdx] = << >>
      BY <2>1, <2>2 DEF Idle
    <3>. QED  BY <2>1, <2>6, <3>1
  <2>8. \A w \in Workers \ {WorkerIdx} : Idle(w)'
    BY <2>1, <2>2, <2>4, <2>6 DEF Idle
  <2>9. \A w \in Workers : w = WorkerIdx => HoldsAwaited(w)'
    <3>. SUFFICES ASSUME NEW w \in Workers, w = WorkerIdx  PROVE HoldsAwaited(w)'
      OBVIOUS
    <3>1. current'[w] = << >> /\ worker_queue'[w] = << Awaited' >>
      BY <2>1, <2>2, <2>4, <2>7 DEF Idle
    <3>. QED  BY <2>4, <3>1 DEF HoldsAwaited
  <2>. QED  BY <2>8, <2>9 DEF OneFlight
<1>4. CASE Collecting
  BY <1>2, <1>4
  DEF Collecting, FirstCommand, CommandsEnd, Collect, TakeCommand, Full, Timeout,
      TimeoutLoses, ClosedWhileCollecting, MayCollect, EndCollection
<1>5. CASE Preprocessing
  BY <1>2, <1>5 DEF Preprocessing, JoinPreprocess, FinishPreprocess
<1>6. CASE BatchFails \/ BatchPanics \/ BatcherGone \/ WorkerUnavailable
  BY <1>2, <1>6 DEF BatchFails, BatchPanics, BatcherGone, WorkerUnavailable
<1>7. CASE Answering
  BY <1>2, <1>7
  DEF Answering, ResultFails, ResultOk, Awaiting, Postprocess, FinishPostprocess
<1>. QED  BY <1>3, <1>4, <1>5, <1>6, <1>7 DEF BatcherNext, Dispatching

\* The commands that are left are some of those there were.
CommandsFiltered ==
  PreprocessOnInfer => \A i \in DOMAIN commands : commands[i] \notin PreFails

\* The batcher adds no command to the channel.
LEMMA BatcherCommands ==
  ASSUME IInv, BatcherAction
  PROVE  CommandsFiltered'
<1>1. commands \in Seq(Requests) /\ CommandsFiltered
  BY DEF IInv, TypeOK, ChannelsTypeOK, FailuresFiltered, CommandsFiltered
<1>2. \/ commands' = commands
      \/ commands # << >> /\ commands' = Tail(commands)
      \/ commands' = << >>
  BY DEF BatcherAction, BatcherNext, Collecting, FirstCommand, CommandsEnd,
         Collect, TakeCommand, Full, Timeout, TimeoutLoses,
         ClosedWhileCollecting, Preprocessing, JoinPreprocess,
         FinishPreprocess, Dispatching, BatchFails, BatchPanics, BatcherGone,
         Dispatch, WorkerUnavailable, Answering, ResultFails, ResultOk,
         Postprocess, FinishPostprocess
<1>3. CASE commands # << >> /\ commands' = Tail(commands)
  <2>1. \A i \in DOMAIN Tail(commands) : /\ i + 1 \in DOMAIN commands
                                         /\ Tail(commands)[i] = commands[i + 1]
    BY <1>1, <1>3
  <2>. QED  BY <1>1, <1>3, <2>1 DEF CommandsFiltered
<1>. QED  BY <1>1, <1>2, <1>3 DEF CommandsFiltered

\* The parts of the invariant that speak of the batch and its callers.
BatchParts == DataInPhase /\ RowsMatch /\ FailuresFiltered /\ WithinLimits

\* They hold wherever there is no batch.
NoBatch ==
  /\ batch_buffer = << >> /\ responders = << >> /\ results = << >>
  /\ preprocessed_items = << >>
  /\ preprocess_tasks = {} /\ postprocess_tasks = {}

\* A step that ends the batch leaves no part of it behind.
LEMMA BatchEnds ==
  ASSUME IInv, BatcherAction, NoBatch',
         phase' \in {"recv", "unwinding", "dead", "exited"}
  PROVE  BatchParts'
<1>1. CommandsFiltered'
  BY BatcherCommands
<1>2. BatchLimit \in Nat
  BY BatcherAssumption DEF BatchLimit
<1>3. DataInPhase'
  BY DEF NoBatch, DataInPhase
<1>4. RowsMatch'
  BY DEF NoBatch, RowsMatch
<1>5. FailuresFiltered'
  BY <1>1 DEF NoBatch, FailuresFiltered, CommandsFiltered
<1>6. WithinLimits'
  BY <1>2 DEF NoBatch, WithinLimits
<1>. QED  BY <1>3, <1>4, <1>5, <1>6 DEF BatchParts

\* One more command is in the buffer.
LEMMA TakeParts ==
  ASSUME IInv, BatcherAction, FirstCommand \/ Collect
  PROVE  BatchParts'
<1>1. /\ commands # << >> /\ commands \in Seq(Requests)
      /\ batch_buffer \in Seq(Requests)
      /\ batch_buffer' = Append(batch_buffer, Head(commands))
      /\ phase \in {"recv", "collect"} /\ phase' = "collect"
      /\ UNCHANGED <<responders, results, preprocess_tasks,
                     preprocessed_items, postprocess_tasks>>
  BY DEF FirstCommand, Collect, MayCollect, TakeCommand, IInv, TypeOK,
         ChannelsTypeOK, BatcherTypeOK
<1>2. /\ responders = << >> /\ results = << >> /\ preprocessed_items = << >>
      /\ preprocess_tasks = {} /\ postprocess_tasks = {}
  BY <1>1 DEF IInv, DataInPhase
<1>3. Head(commands) \in Requests /\ Head(commands) = commands[1]
  BY <1>1
<1>4. /\ batch_buffer' \in Seq(Requests) /\ batch_buffer' # << >>
      /\ Len(batch_buffer') = Len(batch_buffer) + 1
  BY <1>1, <1>3
<1>5. DataInPhase'
  BY <1>1, <1>2, <1>4 DEF DataInPhase
<1>6. RowsMatch'
  BY <1>1, <1>2 DEF RowsMatch
<1>7. FailuresFiltered'
  <2>1. ASSUME PreprocessOnInfer, NEW i \in DOMAIN batch_buffer'
        PROVE  batch_buffer'[i] \notin PreFails
    <3>1. commands[1] \notin PreFails
      BY <1>1, <2>1 DEF IInv, FailuresFiltered
    <3>2. i \in DOMAIN batch_buffer \/ batch_buffer'[i] = Head(commands)
      BY <1>1, <1>3, <2>1
    <3>3. i \in DOMAIN batch_buffer => batch_buffer'[i] = batch_buffer[i]
      BY <1>1, <1>3
    <3>. QED  BY <1>3, <2>1, <3>1, <3>2, <3>3 DEF IInv, FailuresFiltered
  <2>2. CommandsFiltered'
    BY BatcherCommands
  <2>. QED  BY <1>1, <1>2, <2>1, <2>2 DEF FailuresFiltered, CommandsFiltered
<1>8. WithinLimits'
  <2>1. Len(batch_buffer') <= BatchLimit
    <3>1. CASE FirstCommand
      <4>1. batch_buffer = << >>
        BY <3>1 DEF FirstCommand, IInv, DataInPhase
      <4>. QED  BY <1>4, <4>1, BatcherAssumption DEF BatchLimit
    <3>2. CASE Collect
      <4>1. Len(batch_buffer) < MaxBatch /\ Len(batch_buffer) \in Nat
        BY <1>1, <3>2 DEF Collect, MayCollect
      <4>. QED  BY <1>4, <4>1, BatcherAssumption DEF BatchLimit
    <3>. QED  BY <3>1, <3>2
  <2>. QED  BY <1>1, <2>1 DEF WithinLimits, IInv
<1>. QED  BY <1>5, <1>6, <1>7, <1>8 DEF BatchParts

\* The buffer is refused, or becomes the batch.
LEMMA EndCollectionParts ==
  ASSUME IInv, BatcherAction, phase = "collect", NEW lost, EndCollection(lost)
  PROVE  BatchParts'
<1>1. /\ batch_buffer \in Seq(Requests) /\ batch_buffer # << >>
      /\ responders = << >> /\ results = << >> /\ preprocessed_items = << >>
      /\ preprocess_tasks = {} /\ postprocess_tasks = {}
      /\ Len(batch_buffer) <= BatchLimit /\ BatchLimit \in Nat
  BY BatcherAssumption
  DEF IInv, DataInPhase, TypeOK, BatcherTypeOK, WithinLimits, BatchLimit
<1>2. /\ batch_buffer' = << >>
      /\ UNCHANGED <<preprocessed_items, postprocess_tasks>>
  BY DEF EndCollection
<1>3. CASE Len(batch_buffer) < MinBatch
  <2>1. phase' = "recv" /\ UNCHANGED <<responders, preprocess_tasks, results>>
    BY <1>3 DEF EndCollection
  <2>. QED  BY <1>1, <1>2, <2>1, BatchEnds DEF NoBatch
<1>4. CASE ~(Len(batch_buffer) < MinBatch)
  <2>1. responders' = batch_buffer /\ phase' = "preprocess"
    BY <1>4 DEF EndCollection
  <2>2. \/ /\ PreprocessOnInfer /\ results' = batch_buffer
           /\ preprocess_tasks' = {}
        \/ /\ results' = << >>
           /\ preprocess_tasks' = {[idx |-> i, input |-> batch_buffer[i]] :
                                     i \in DOMAIN batch_buffer}
    BY <1>1, <1>4 DEF EndCollection
  <2>3. DataInPhase'
    BY <1>1, <1>2, <2>1 DEF DataInPhase
  <2>4. RowsMatch'
    <3>1. \A i \in DOMAIN results' :
            results'[i] = responders'[i] /\ results'[i] \notin PreFails
      BY <2>1, <2>2 DEF IInv, FailuresFiltered
    <3>2. \A t \in preprocess_tasks' :
            t.idx \in DOMAIN responders' /\ t.input = responders'[t.idx]
      BY <2>1, <2>2
    <3>. QED  BY <1>1, <1>2, <2>1, <3>1, <3>2 DEF RowsMatch
  <2>5. FailuresFiltered'
    <3>1. \A i \in DOMAIN responders' :
            i \in DOMAIN results' \/ \E t \in preprocess_tasks' : t.idx = i
      <4>1. CASE results' = batch_buffer
        BY <2>1, <4>1
      <4>2. CASE preprocess_tasks' = {[idx |-> i, input |-> batch_buffer[i]] :
                                        i \in DOMAIN batch_buffer}
        <5>1. \A i \in DOMAIN batch_buffer :
                /\ [idx |-> i, input |-> batch_buffer[i]] \in preprocess_tasks'
                /\ [idx |-> i, input |-> batch_buffer[i]].idx = i
          BY <4>2
        <5>. QED  BY <2>1, <5>1
      <4>. QED  BY <2>2, <4>1, <4>2
    <3>2. CommandsFiltered'
      BY BatcherCommands
    <3>. QED  BY <1>1, <1>2, <2>1, <3>1, <3>2
              DEF FailuresFiltered, CommandsFiltered
  <2>6. WithinLimits'
    BY <1>1, <1>2, <2>1 DEF WithinLimits
  <2>. QED  BY <2>3, <2>4, <2>5, <2>6 DEF BatchParts
<1>. QED  BY <1>3, <1>4

\* A task leaves its item at its own index, or no item.
LEMMA JoinParts ==
  ASSUME IInv, BatcherAction, NEW t \in preprocess_tasks, JoinPreprocess(t)
  PROVE  BatchParts'
<1>1. /\ phase = "preprocess" /\ preprocess_tasks' = preprocess_tasks \ {t}
      /\ UNCHANGED <<phase, batch_buffer, responders, preprocessed_items,
                     postprocess_tasks, commands, result>>
  BY DEF JoinPreprocess
<1>2. DataInPhase /\ RowsMatch /\ FailuresFiltered /\ WithinLimits
  BY DEF IInv
<1>3. t.idx \in DOMAIN responders /\ t.input = responders[t.idx]
  BY <1>2 DEF RowsMatch
<1>4. CASE t.input \in PreFails
  <2>1. results' = results
    BY <1>4 DEF JoinPreprocess, PreFails
  <2>2. DataInPhase' /\ RowsMatch' /\ WithinLimits'
    BY <1>1, <1>2, <2>1 DEF DataInPhase, RowsMatch, WithinLimits
  <2>3. FailuresFiltered'
    BY <1>1, <1>2, <1>3, <1>4, <2>1 DEF FailuresFiltered
  <2>. QED  BY <2>2, <2>3 DEF BatchParts
<1>5. CASE t.input \notin PreFails
  <2>1. results' = [i \in DOMAIN results \cup {t.idx} |->
                      IF i = t.idx THEN t.input ELSE results[i]]
    BY <1>5 DEF JoinPreprocess, PreFails
  <2>2. DataInPhase' /\ WithinLimits'
    BY <1>1, <1>2 DEF DataInPhase, WithinLimits
  <2>3. RowsMatch'
    <3>1. \A i \in DOMAIN results' :
            results'[i] = responders'[i] /\ results'[i] \notin PreFails
      BY <1>1, <1>2, <1>3, <1>5, <2>1 DEF RowsMatch
    <3>. QED  BY <1>1, <1>2, <3>1 DEF RowsMatch
  <2>4. FailuresFiltered'
    <3>1. DOMAIN results' = DOMAIN results \cup {t.idx}
      BY <2>1
    <3>. QED  BY <1>1, <1>2, <3>1 DEF FailuresFiltered
  <2>. QED  BY <2>2, <2>3, <2>4 DEF BatchParts
<1>. QED  BY <1>4, <1>5

\* The callers that are kept are those of the rows, in the same order.
LEMMA FinishPreprocessParts ==
  ASSUME IInv, BatcherAction, FinishPreprocess
  PROVE  BatchParts'
<1>1. DataInPhase /\ RowsMatch /\ FailuresFiltered /\ WithinLimits /\ BatcherTypeOK
  BY DEF IInv, TypeOK
<1>2. /\ phase = "preprocess" /\ preprocess_tasks = {} /\ batch_buffer = << >>
      /\ postprocess_tasks = {} /\ preprocessed_items = << >>
      /\ UNCHANGED <<batch_buffer, postprocess_tasks, preprocess_tasks, commands,
                     result>>
      /\ results' = << >>
  BY <1>1 DEF FinishPreprocess, ForgetBatch, DataInPhase
<1>3. CASE DOMAIN results = {}
  <2>1. /\ phase' = "recv" /\ responders' = << >>
        /\ preprocessed_items' = << >>
    BY <1>3 DEF FinishPreprocess, ForgetBatch
  <2>. QED  BY <1>2, <2>1, BatchEnds DEF NoBatch
<1>4. CASE DOMAIN results # {}
  <2>1. /\ phase' = "batch"
        /\ preprocessed_items' = ItemsInOrder /\ responders' = KeptResponders
    BY <1>4 DEF FinishPreprocess
  <2>. DEFINE n == Cardinality(DOMAIN results)
              e == InOrder(DOMAIN results)
  <2>2. /\ n \in Nat /\ n > 0 /\ n <= Len(responders)
        /\ e \in [1 .. n -> DOMAIN results]
        /\ ItemsInOrder = [k \in 1 .. n |-> results[e[k]]]
        /\ KeptResponders = [k \in 1 .. n |-> responders[e[k]]]
        /\ KeptResponders \in Seq(Requests) /\ Len(KeptResponders) = n
    BY <1>1, <1>4, FilteredLists
  <2>. HIDE DEF n, e
  <2>3. \A k \in 1 .. n : /\ results[e[k]] = responders[e[k]]
                          /\ results[e[k]] \notin PreFails
    BY <1>1, <2>2 DEF RowsMatch
  <2>4. ItemsInOrder = KeptResponders
    BY <2>2, <2>3
  <2>5. \A k \in DOMAIN KeptResponders : KeptResponders[k] \notin PreFails
    BY <2>2, <2>3
  <2>6. KeptResponders # << >>
    BY <2>2
  <2>7. DataInPhase'
    BY <1>2, <2>1, <2>6 DEF DataInPhase
  <2>8. RowsMatch'
    BY <1>2, <2>1, <2>4 DEF RowsMatch
  <2>9. FailuresFiltered'
    BY <1>1, <1>2, <2>1, <2>5 DEF FailuresFiltered
  <2>10. WithinLimits'
    <3>1. BatchLimit \in Nat /\ Len(responders) \in Nat
      BY <1>1, BatcherAssumption DEF BatchLimit, BatcherTypeOK
    <3>. QED  BY <1>1, <1>2, <2>1, <2>2, <3>1 DEF WithinLimits
  <2>. QED  BY <2>7, <2>8, <2>9, <2>10 DEF BatchParts
<1>. QED  BY <1>3, <1>4

\* The rows leave for a session; the callers stay.
LEMMA DispatchParts ==
  ASSUME IInv, BatcherAction, Dispatch
  PROVE  BatchParts'
<1>1. /\ phase = "batch" /\ phase' = "await" /\ preprocessed_items' = << >>
      /\ result' = [id |-> result.id + 1, state |-> "pending", outputs |-> << >>]
      /\ UNCHANGED <<batch_buffer, responders, preprocess_tasks, results,
                     postprocess_tasks, commands>>
  BY DEF Dispatch
<1>2. DataInPhase /\ RowsMatch /\ FailuresFiltered /\ WithinLimits
  BY DEF IInv
<1>3. result'.state = "pending"
  BY <1>1
<1>4. DataInPhase'
  BY <1>1, <1>2 DEF DataInPhase
<1>5. RowsMatch'
  BY <1>1, <1>2, <1>3 DEF DataInPhase, RowsMatch
<1>6. FailuresFiltered'
  BY <1>1, <1>2 DEF FailuresFiltered
<1>7. WithinLimits'
  BY <1>1, <1>2 DEF WithinLimits
<1>. QED  BY <1>4, <1>5, <1>6, <1>7 DEF BatchParts

\* Every output is zipped with the caller at its place, whose row it is.
LEMMA ResultOkParts ==
  ASSUME IInv, BatcherAction, ResultOk
  PROVE  BatchParts'
<1>1. /\ phase = "await" /\ phase' = "post" /\ responders' = << >>
      /\ postprocess_tasks' =
           {[raw_output |-> result.outputs[i], responder |-> responders[i]] :
              i \in DOMAIN responders}
      /\ UNCHANGED <<batch_buffer, preprocess_tasks, results,
                     preprocessed_items, commands, result>>
  BY DEF ResultOk, Awaiting
<1>2. DataInPhase /\ RowsMatch /\ FailuresFiltered /\ WithinLimits
  BY DEF IInv
<1>3. result.outputs = responders
  BY <1>2 DEF ResultOk, Awaiting, RowsMatch
<1>4. BatchLimit \in Nat
  BY BatcherAssumption DEF BatchLimit
<1>5. DataInPhase'
  BY <1>1, <1>2 DEF DataInPhase
<1>6. RowsMatch'
  <2>1. \A t \in postprocess_tasks' : t.raw_output = t.responder
    BY <1>1, <1>3
  <2>. QED  BY <1>1, <1>2, <2>1 DEF DataInPhase, RowsMatch
<1>7. FailuresFiltered'
  BY <1>1, <1>2 DEF FailuresFiltered
<1>8. WithinLimits'
  BY <1>1, <1>2, <1>4 DEF WithinLimits
<1>. QED  BY <1>5, <1>6, <1>7, <1>8 DEF BatchParts

\* Every step of the batcher keeps rows and callers side by side.
LEMMA BatcherBatchParts ==
  ASSUME IInv, BatcherAction
  PROVE  BatchParts'
<1>1. DataInPhase
  BY DEF IInv
<1>2. CASE FirstCommand \/ Collect
  BY <1>2, TakeParts
<1>3. CASE Full \/ Timeout \/ TimeoutLoses \/ ClosedWhileCollecting
  BY <1>3, EndCollectionParts
  DEF Full, Timeout, TimeoutLoses, ClosedWhileCollecting, MayCollect
<1>4. CASE CommandsEnd \/ BatcherGone \/ FinishPostprocess
  BY <1>1, <1>4, BatchEnds
  DEF CommandsEnd, BatcherGone, FinishPostprocess, NoBatch, DataInPhase
<1>5. CASE \E t \in preprocess_tasks : JoinPreprocess(t)
  BY <1>5, JoinParts
<1>6. CASE FinishPreprocess
  BY <1>6, FinishPreprocessParts
<1>7. ASSUME phase \in {"batch", "await"}, phase' \in {"recv", "unwinding"},
             ForgetBatch, UNCHANGED postprocess_tasks
      PROVE  BatchParts'
  BY <1>1, <1>7, BatchEnds DEF ForgetBatch, NoBatch, DataInPhase
<1>8. CASE BatchFails \/ BatchPanics
  BY <1>7, <1>8 DEF BatchFails, BatchPanics, FailBatch
<1>9. CASE Dispatch
  BY <1>9, DispatchParts
<1>10. CASE WorkerUnavailable
  BY <1>1, <1>10, BatchEnds DEF WorkerUnavailable, NoBatch, DataInPhase
<1>11. CASE ResultFails
  BY <1>7, <1>11 DEF ResultFails, Awaiting, FailBatch
<1>12. CASE ResultOk
  BY <1>12, ResultOkParts
<1>13. CASE \E t \in postprocess_tasks : Postprocess(t)
  <2>1. BatchParts
    BY DEF IInv, BatchParts
  <2>. QED  BY <1>13, <2>1
            DEF BatchParts, Postprocess, DataInPhase, RowsMatch,
                FailuresFiltered, WithinLimits
<1>. QED  BY <1>2, <1>3, <1>4, <1>5, <1>6, <1>8, <1>9, <1>10, <1>11, <1>12,
             <1>13
          DEF BatcherAction, BatcherNext, Collecting, Preprocessing,
              Dispatching, Answering

\* Every answer the batcher sends fits the input it is sent for.
LEMMA BatcherAnswers ==
  ASSUME IInv, BatcherAction
  PROVE  AnswerFitsInput'
<1>1. /\ responder \in [Requests -> Content] /\ AnswerFitsInput
      /\ RowsMatch /\ FailuresFiltered
  BY DEF IInv, TypeOK, ChannelsTypeOK, Content
<1>2. ASSUME UNCHANGED responder
      PROVE  AnswerFitsInput'
  BY <1>1, <1>2 DEF AnswerFitsInput
<1>3. ASSUME \A r \in Requests :
               responder'[r] = responder[r] \/ Unrelated(responder'[r])
      PROVE  AnswerFitsInput'
  BY <1>1, <1>3 DEF AnswerFitsInput, Unrelated
<1>4. ASSUME NEW S, NEW reply, Unrelated(reply), responder' = Send(S, reply)
      PROVE  AnswerFitsInput'
  BY <1>3, <1>4 DEF Send
<1>5. \A e \in BatcherErrors \ {"preprocess", "postprocess"} : Unrelated(Err(e))
  BY UnrelatedReplies
<1>6. CASE FirstCommand \/ Collect \/ CommandsEnd
  BY <1>2, <1>6 DEF FirstCommand, Collect, CommandsEnd, TakeCommand
<1>7. CASE Full \/ Timeout \/ TimeoutLoses \/ ClosedWhileCollecting
  <2>1. PICK lost : EndCollection(lost)
    BY <1>7 DEF Full, Timeout, TimeoutLoses, ClosedWhileCollecting
  <2>2. Unrelated(Dropped) /\ Unrelated(Refusal)
    BY <1>5, UnrelatedReplies DEF Refusal, BatcherErrors
  <2>3. \A r \in Requests :
          responder'[r] = responder[r] \/ Unrelated(responder'[r])
    BY <2>1, <2>2 DEF EndCollection
  <2>. QED  BY <1>3, <2>3
<1>8. CASE FinishPreprocess
  <2>1. FailedResponders \subseteq PreFails
    <3>1. phase = "preprocess" /\ preprocess_tasks = {}
      BY <1>8 DEF FinishPreprocess
    <3>. QED  BY <1>1, <3>1 DEF FailuresFiltered, FailedResponders
  <2>2. responder' = Send(FailedResponders, Err("preprocess"))
    BY <1>8 DEF FinishPreprocess, FailureReply
  <2>3. ASSUME NEW r \in Requests
        PROVE  \/ responder'[r] = responder[r]
               \/ r \in PreFails /\ responder'[r].tag = "preprocess"
    BY <2>1, <2>2 DEF Send, Err
  <2>. QED  BY <1>1, <2>3 DEF AnswerFitsInput, PreFails
<1>9. ASSUME NEW e \in BatcherErrors \ {"preprocess", "postprocess"}, FailBatch(e)
      PROVE  AnswerFitsInput'
  BY <1>4, <1>5, <1>9 DEF FailBatch
<1>10. CASE BatchFails \/ ResultFails
  BY <1>9, <1>10 DEF BatchFails, ResultFails, BatcherErrors
<1>11. CASE BatchPanics
  BY <1>4, <1>11, UnrelatedReplies DEF BatchPanics
<1>12. CASE BatcherGone
  BY <1>2, <1>4, <1>12, UnrelatedReplies DEF BatcherGone
<1>13. CASE WorkerUnavailable
  BY <1>4, <1>5, <1>13 DEF WorkerUnavailable, BatcherErrors
<1>14. CASE \E t \in postprocess_tasks : Postprocess(t)
  <2>1. PICK t \in postprocess_tasks : Postprocess(t)
    BY <1>14
  <2>2. t.raw_output = t.responder /\ t.responder \notin PreFails
    BY <1>1 DEF RowsMatch, FailuresFiltered
  <2>3. responder' = Send({t.responder}, PostprocessVerdict(t.responder))
    BY <2>1, <2>2 DEF Postprocess
  <2>4. \/ PostprocessVerdict(t.responder) = Dropped
        \/ /\ PostprocessVerdict(t.responder) = Err("postprocess")
           /\ t.responder \in PostErr
        \/ /\ PostprocessVerdict(t.responder) = Ok(t.responder)
           /\ t.responder \notin PostErr \cup PostPanic
    BY DEF PostprocessVerdict
  <2>5. /\ Dropped.tag = "dropped" /\ Err("postprocess").tag = "postprocess"
        /\ Ok(t.responder) = [tag |-> "ok", row |-> {t.responder}]
    BY DEF Dropped, Err, Ok
  <2>6. \A r \in Requests \ {t.responder} : responder'[r] = responder[r]
    BY <2>3 DEF Send
  <2>7. t.responder \in Requests =>
          responder'[t.responder] = PostprocessVerdict(t.responder)
    BY <2>3 DEF Send
  <2>. QED  BY <1>1, <2>2, <2>4, <2>5, <2>6, <2>7 DEF AnswerFitsInput, PreFails
<1>15. CASE \/ \E t \in preprocess_tasks : JoinPreprocess(t)
            \/ Dispatch \/ ResultOk \/ FinishPostprocess
  BY <1>2, <1>15 DEF JoinPreprocess, Dispatch, ResultOk, FinishPostprocess
<1>. QED  BY <1>6, <1>7, <1>8, <1>10, <1>11, <1>12, <1>13, <1>14, <1>15
          DEF BatcherAction, BatcherNext, Collecting, Preprocessing,
              Dispatching, Answering

\* The batcher preserves the invariant.
LEMMA BatcherPreserves ==
  ASSUME IInv, BatcherAction
  PROVE  IInv'
BY BatcherTypeCorrect, BatcherOneFlight, BatcherBatchParts, BatcherAnswers
DEF IInv, BatchParts

-----------------------------------------------------------------------------
(* The inductive invariant. *)

\* IInv holds when start() returns: nothing has been sent yet.
LEMMA InitInv == Init => IInv
<1>. SUFFICES ASSUME Init PROVE IInv
  OBVIOUS
<1>. USE DEF Init, ChannelsInit, CallersInit, WorkerPoolInit, BatcherInit
<1>1. TypeOK
  BY InitTypeOK
<1>2. DataInPhase /\ BusyHolds /\ OneFlight
  BY DEF DataInPhase, BusyHolds, OneFlight, Idle
<1>3. RowsMatch /\ FailuresFiltered
  BY DEF RowsMatch, FailuresFiltered
<1>4. WithinLimits
  BY BatcherAssumption DEF WithinLimits, BatchLimit
<1>5. AnswerFitsInput
  BY DEF AnswerFitsInput, None
<1>. QED  BY <1>1, <1>2, <1>3, <1>4, <1>5 DEF IInv

\* A step in which nothing happens.
LEMMA StutterPreserves ==
  ASSUME IInv, UNCHANGED vars
  PROVE  IInv'
<1>1. TypeOK'
  BY DEF IInv, TypeOK, ChannelsTypeOK, CallersTypeOK, WorkerPoolTypeOK,
         BatcherTypeOK
<1>2. (DataInPhase /\ BusyHolds)'
  BY DEF IInv, DataInPhase, BusyHolds
<1>3. OneFlight'
  BY DEF IInv, OneFlight, Idle, HoldsAwaited, Awaited
<1>4. (RowsMatch /\ FailuresFiltered /\ WithinLimits)'
  BY DEF IInv, RowsMatch, FailuresFiltered, WithinLimits
<1>5. AnswerFitsInput'
  BY DEF IInv, AnswerFitsInput
<1>. QED  BY <1>1, <1>2, <1>3, <1>4, <1>5 DEF IInv

\* Every step preserves the invariant.
LEMMA NextInv == IInv /\ [Next]_vars => IInv'
BY CallerPreserves, BatcherPreserves, WorkerPreserves, StutterPreserves
DEF Next, Terminating

\* IInv holds in every state of every behaviour of the server, for any set of
\* requests and handles, any configuration and any combination of faults.
THEOREM Invariance == Spec => []IInv
BY InitInv, NextInv, PTL DEF Spec

-----------------------------------------------------------------------------
(* The properties. *)

\* Every variable always holds values of its declared type; in particular the
\* wrapping dispatch_index stays in range, and indexes into the batch stay
\* indexes of the batch (the unchecked accesses of batcher.rs).
THEOREM TypeCorrect == Spec => []TypeOK
<1>1. IInv => TypeOK
  BY DEF IInv
<1>. QED  BY <1>1, Invariance, PTL

\* In every reachable state at most one batch is with the sessions, and it is
\* the one whose callers the batcher holds: a result is never paired with the
\* callers of another batch, however many sessions there are and whichever of
\* them fail.
THEOREM SingleFlightHolds == Spec => []SingleFlight
<1>1. ASSUME IInv
      PROVE  SingleFlight
  <2>1. OneFlight /\ \A w \in Workers : /\ current[w] \in Seq(WorkerMessage)
                                        /\ worker_queue[w] \in Seq(WorkerMessage)
    BY <1>1 DEF IInv, TypeOK, ChannelsTypeOK, WorkerPoolTypeOK
  <2>2. \A w \in Workers : Idle(w) => Work(w) = << >>
    BY <2>1 DEF Idle, Work
  <2>3. ASSUME NEW w \in Workers, ~Idle(w)
        PROVE  /\ phase = "await" /\ result.state = "pending"
               /\ Work(w) = << Awaited >>
    <3>1. HoldsAwaited(w)
      BY <2>1, <2>3 DEF OneFlight
    <3>2. << Awaited >> \o << >> = << Awaited >>
          /\ << >> \o << Awaited >> = << Awaited >>
      BY ConcatEmptySeq, ElementOfSeq
    <3>. QED  BY <3>1, <3>2 DEF HoldsAwaited, Work
  <2>. QED  BY <2>1, <2>2, <2>3 DEF SingleFlight, OneFlight, Awaited
<1>. QED  BY <1>1, Invariance, PTL

\* Whatever the neighbours in its batch do, a caller only ever receives an
\* output computed from its own input, or an error its own input deserves.
THEOREM AnswerFitsInputHolds == Spec => []AnswerFitsInput
<1>1. IInv => AnswerFitsInput
  BY DEF IInv
<1>. QED  BY <1>1, Invariance, PTL

\* No batch that reaches I::batch or a session is empty or too large, for every
\* max_batch_size, 0 included.
THEOREM BatchWithinLimitsHolds == Spec => []BatchWithinLimits
<1>1. ASSUME IInv
      PROVE  BatchWithinLimits
  <2>1. BatchLimit = IF MaxBatch = 0 THEN 1 ELSE MaxBatch
    BY DEF BatchLimit
  <2>2. responders \in Seq(Requests) /\ WithinLimits /\ DataInPhase
    BY <1>1 DEF IInv, TypeOK, BatcherTypeOK
  <2>3. phase \in {"batch", "await"} => responders # << >>
    BY <2>2 DEF DataInPhase
  <2>4. responders # << >> => Len(responders) \in Nat /\ Len(responders) >= 1
    BY <2>2
  <2>. QED  BY <2>1, <2>2, <2>3, <2>4, BatcherAssumption
            DEF BatchWithinLimits, WithinLimits, BatchLimit
<1>. QED  BY <1>1, Invariance, PTL

\* Commands are gathered in the order they were queued, and only when every
\* caller of the batch before has been answered.
THEOREM OneBatchAtATimeHolds == Spec => OneBatchAtATime
<1>. DEFINE Gathers == batch_buffer' # batch_buffer /\ batch_buffer' # << >>
            Fresh == /\ batch_buffer' = Append(batch_buffer, Head(commands))
                     /\ responders = << >> /\ postprocess_tasks = {}
<1>1. ASSUME IInv, Next
      PROVE  Gathers => Fresh
  <2>1. ASSUME Gathers
        PROVE  FirstCommand \/ Collect
    <3>1. BatcherAction
      BY <1>1, <2>1, WorkerFrame
      DEF Next, Terminating, CallerAction
    <3>. QED  BY <2>1, <3>1
              DEF BatcherAction, BatcherNext, Collecting, CommandsEnd, Full,
                  Timeout, TimeoutLoses, ClosedWhileCollecting, EndCollection,
                  Preprocessing, JoinPreprocess, FinishPreprocess, ForgetBatch,
                  Dispatching, BatchFails, FailBatch, BatchPanics, BatcherGone,
                  Dispatch, WorkerUnavailable, Answering, ResultFails, ResultOk,
                  Postprocess, FinishPostprocess
  <2>2. FirstCommand \/ Collect => Fresh
    BY <1>1 DEF FirstCommand, Collect, MayCollect, TakeCommand, IInv, DataInPhase
  <2>. QED  BY <2>1, <2>2
<1>2. IInv /\ [Next]_vars => [Gathers => Fresh]_vars
  BY <1>1
<1>. QED  BY <1>2, Invariance, PTL DEF Spec, OneBatchAtATime
=============================================================================
